---- MODULE Spec2Model ----
(***************************************************************************)
(* A model of marketing_tool.py: the rule matcher (generate_auto_plan),    *)
(* the persisted state file (load_state / save_state / reset_state), the   *)
(* mutating commands that main runs in one invocation (reset-sample,       *)
(* add-campaign, select-strategy, generate-video) and the views that read  *)
(* the state record (the table and panel builders, the brief, the          *)
(* dashboard).                                                             *)
(*                                                                         *)
(* Text that the program inspects character by character (the creative     *)
(* idea, keywords, rule names, dates) is a sequence of one-character       *)
(* strings; text that the program only stores, compares for equality and   *)
(* concatenates (names, channels, paths) is a TLA+ string.                 *)
(***************************************************************************)
EXTENDS Integers, Sequences, FiniteSets, TLC

VARIABLES
    \* ---- rule matcher (generate_auto_plan) ----
    creative_idea,      \* the phrase passed to generate_auto_plan
    automation_rules,   \* the rule table passed to it (or no table)
    auto_plan,          \* the plan the last call returned
    plan_pc,            \* "ask" (inputs chosen) or "planned" (call returned)
    plan_calls,         \* the calls made one after the other: phrase, date, plan returned
    plan_objects,       \* the dicts that calls returned, as their callers hold them now
    \* ---- one invocation of main at a time ----
    disk,               \* content of data/state.json
    state,              \* the in-memory state record of the running invocation
    args,               \* the argparse namespace, as far as main has read it
    pc,                 \* position of the running invocation inside main
    exit_msg,           \* argument of the SystemExit that ended the invocation
    console,            \* lines printed by the commands of the invocation
    saves,              \* which callers have called save_state in the invocation
    disk0,              \* content of data/state.json when the invocation started
    prev,               \* state record just before the last command ran
    today,              \* the date datetime.now() reports
    runs,               \* number of invocations started so far
    \* ---- two invocations racing on the same file ----
    rfile,              \* content of data/state.json as load_state finds it
    rbytes,             \* the bytes of data/state.json: pieces of texts
    rpc,                \* position of each invocation
    rstate,             \* in-memory state record of each invocation
    rorder,             \* order of the file events (load/open/flush/write) so far
    roffset,            \* per invocation: bytes of its text it has written so far
    \* ---- the views (builders, brief, dashboard) ----
    vstate,             \* the state record the views are given
    vstate0,            \* that record before any view was built
    view,               \* what the last view call produced
    \* ---- the state file as text (json.dump / json.load) ----
    sfile,              \* content of data/state.json, character by character
    srecord,            \* the record last passed to save_state
    sloaded,            \* what the last load_state call returned
    spc                 \* "start", "saved" or "loaded"

plan_vars == <<creative_idea, automation_rules, auto_plan, plan_pc, plan_calls, plan_objects>>
main_vars == <<disk, state, args, pc, exit_msg, console, saves, disk0, prev, today, runs>>
race_vars == <<rfile, rbytes, rpc, rstate, rorder, roffset>>
view_vars == <<vstate, vstate0, view>>
store_vars == <<sfile, srecord, sloaded, spc>>
vars == <<plan_vars, main_vars, race_vars, view_vars, store_vars>>

----------------------------------------------------------------------------
(* Bounds of the model *)

MaxWords == 3       \* a phrase is the concatenation of at most MaxWords tokens
MaxRuns == 1        \* invocations of main in one behaviour
MaxActions == 4     \* stored action items in a record given to the views
MaxMixed == 3       \* stored action items when every kind of due text is drawn
MaxCalls == 3       \* calls of generate_auto_plan made one after the other
MaxEdits == 1       \* returned plans that their callers change

----------------------------------------------------------------------------
(* Characters and Python's str operations on them *)

\* The printable ASCII characters in code-point order, 32 (space) .. 126 (~);
\* position 96 (the grave accent, which the module text cannot hold) is a
\* placeholder that no input contains.
AsciiChars ==
    << " ", "!", "\"", "#", "$", "%", "&", "'", "(", ")", "*", "+", ",", "-", ".", "/",
       "0", "1", "2", "3", "4", "5", "6", "7", "8", "9", ":", ";", "<", "=", ">", "?",
       "@", "A", "B", "C", "D", "E", "F", "G", "H", "I", "J", "K", "L", "M", "N", "O",
       "P", "Q", "R", "S", "T", "U", "V", "W", "X", "Y", "Z", "[", "\\", "]", "^", "_",
       "GRAVE", "a", "b", "c", "d", "e", "f", "g", "h", "i", "j", "k", "l", "m", "n", "o",
       "p", "q", "r", "s", "t", "u", "v", "w", "x", "y", "z", "{", "|", "}", "~" >>

\* ord(c): the code point of a character (tab and newline precede the printable range).
OrdTable ==
    [c \in {AsciiChars[i] : i \in 1..Len(AsciiChars)} \cup {"\t", "\n"} |->
        IF c = "\t" THEN 9
        ELSE IF c = "\n" THEN 10
        ELSE 31 + (CHOOSE i \in 1..Len(AsciiChars) : AsciiChars[i] = c)]

Ord(c) == OrdTable[c]

\* str.lower() on one character: A-Z map to a-z, everything else is kept.
LowerTable ==
    [c \in DOMAIN OrdTable |->
        IF OrdTable[c] >= 65 /\ OrdTable[c] <= 90 THEN AsciiChars[OrdTable[c] - 31 + 32]
        ELSE c]

LowerChar(c) == LowerTable[c]

\* str.lower()
Lower(s) == [i \in 1..Len(s) |-> LowerChar(s[i])]

\* the characters str.strip() removes
Whitespace == {" ", "\t", "\n"}

\* str.strip(): drop leading and trailing whitespace
RECURSIVE Strip(_)
Strip(s) ==
    IF s = <<>> THEN s
    ELSE IF Head(s) \in Whitespace THEN Strip(Tail(s))
    ELSE IF s[Len(s)] \in Whitespace THEN Strip(SubSeq(s, 1, Len(s) - 1))
    ELSE s

\* `k in s` for two strings
IsSubstring(k, s) ==
    \E i \in 0..(Len(s) - Len(k)) : SubSeq(s, i + 1, i + Len(k)) = k

\* a < b for two strings: Python compares code point by code point
RECURSIVE StrLess(_, _)
StrLess(a, b) ==
    IF b = <<>> THEN FALSE
    ELSE IF a = <<>> THEN TRUE
    ELSE IF Head(a) = Head(b) THEN StrLess(Tail(a), Tail(b))
    ELSE Ord(Head(a)) < Ord(Head(b))

\* sorted(names): insertion sort of a sequence of strings, ascending
RECURSIVE Insert(_, _)
Insert(x, sortedSeq) ==
    IF sortedSeq = <<>> THEN <<x>>
    ELSE IF StrLess(x, Head(sortedSeq)) THEN <<x>> \o sortedSeq
    ELSE <<Head(sortedSeq)>> \o Insert(x, Tail(sortedSeq))

RECURSIVE Sorted(_)
Sorted(names) ==
    IF names = <<>> THEN <<>>
    ELSE Insert(names[Len(names)], Sorted(SubSeq(names, 1, Len(names) - 1)))

\* str(n) for an integer
DigitStr == <<"0", "1", "2", "3", "4", "5", "6", "7", "8", "9">>

RECURSIVE NatToStr(_)
NatToStr(n) ==
    IF n < 10 THEN DigitStr[n + 1]
    ELSE NatToStr(n \div 10) \o DigitStr[(n % 10) + 1]

IntToStr(n) == IF n < 0 THEN "-" \o NatToStr(0 - n) ELSE NatToStr(n)

----------------------------------------------------------------------------
(* JSON values that a rule configuration or a plan can hold *)

JNone == [t |-> "none", s |-> "", n |-> 0]
JStr(x) == [t |-> "str", s |-> x, n |-> 0]
JInt(k) == [t |-> "int", s |-> "", n |-> k]

\* Python truthiness: `if value:`
Truthy(v) ==
    CASE v.t = "none" -> FALSE
      [] v.t = "str" -> v.s # ""
      [] v.t = "int" -> v.n # 0

\* f"{value}"
Format(v) ==
    CASE v.t = "none" -> "None"
      [] v.t = "str" -> v.s
      [] v.t = "int" -> IntToStr(v.n)

\* the empty dict {}
EmptyDict == [k \in {} |-> JNone]

\* dict.get(key, default) on a mapping modelled as a function
Get(d, key, default) == IF key \in DOMAIN d THEN d[key] ELSE default

----------------------------------------------------------------------------
(* The rule matcher: generate_auto_plan *)

\* sample_state()["automation_rules"]: rule name -> configuration
sample_automation_rules ==
    (<<"S","M","B","_","C","T","O">> :>
        [segment |-> JStr("Tech Leads"), cadence |-> JStr("0-3-7"),
         channel |-> JStr("Email+LinkedIn")])
    @@ (<<"E","n","t","e","r","p","r","i","s","e">> :>
        [segment |-> JStr("VP Sales"), cadence |-> JStr("0-5-14-30"),
         ab_tests |-> JInt(3)])
    @@ (<<"D","e","m","o","_","v","i","d","e","o">> :>
        [variants |-> JInt(2), length |-> JInt(90), format |-> JStr("MP4 vertical")])

\* The hard-coded keyword mapping, in the insertion order of the dict literal.
rule_patterns ==
    << [name |-> <<"S","M","B","_","C","T","O">>,
        keywords |-> << <<"s","m","b">>, <<"c","t","o">>,
                        <<"t","e","c","h"," ","l","e","a","d">>,
                        <<"t","e","c","h","n","i","c","a","l">>,
                        <<"s","m","a","l","l"," ","b","u","s","i","n","e","s","s">>,
                        <<"m","e","d","i","u","m"," ","b","u","s","i","n","e","s","s">> >>],
       [name |-> <<"E","n","t","e","r","p","r","i","s","e">>,
        keywords |-> << <<"e","n","t","e","r","p","r","i","s","e">>, <<"v","p">>,
                        <<"s","a","l","e","s">>, <<"l","a","r","g","e">>,
                        <<"c","o","r","p","o","r","a","t","i","o","n">> >>],
       [name |-> <<"D","e","m","o","_","v","i","d","e","o">>,
        keywords |-> << <<"d","e","m","o">>, <<"v","i","d","e","o">>,
                        <<"p","r","e","s","e","n","t","a","t","i","o","n">>,
                        <<"r","e","c","o","r","d","i","n","g">>, <<"m","p","4">> >>] >>

\* the phrase that replaces an empty, None or whitespace-only idea
GeneralCampaign == <<"G","e","n","e","r","a","l"," ","c","a","m","p","a","i","g","n">>

\* An idea is None or a string.
NoIdea == [none |-> TRUE, text |-> <<>>]
Idea(text) == [none |-> FALSE, text |-> text]

\* a variant of normalize_idea that substitutes the prompt's default answer
\* ("Demo campaign") instead of the matcher's default phrase
normalize_idea_prompt_default(idea) ==
    IF idea.none \/ idea.text = <<>> \/ Strip(idea.text) = <<>>
    THEN <<"D","e","m","o"," ","c","a","m","p","a","i","g","n">>
    ELSE idea.text

\* `if not creative_idea or not creative_idea.strip(): creative_idea = "General campaign"`
normalize_idea(idea) ==
    IF idea.none \/ idea.text = <<>> \/ Strip(idea.text) = <<>>
    THEN GeneralCampaign
    ELSE idea.text

\* sum(1 for keyword in keywords if keyword in idea_lower)
keyword_score(keywords, idea_lower) ==
    Cardinality({i \in 1..Len(keywords) : IsSubstring(keywords[i], idea_lower)})

\* the dict `scores`: the rules with a positive score, in the iteration order
\* of the keyword mapping, each with its score
HasScore(entry) == entry.score > 0

rule_scores(patterns, idea_lower) ==
    SelectSeq([i \in 1..Len(patterns) |->
                  [name |-> patterns[i].name,
                   score |-> keyword_score(patterns[i].keywords, idea_lower)]],
              HasScore)

\* max(scores.values())
max_score(scores) ==
    CHOOSE m \in {scores[i].score : i \in 1..Len(scores)} :
        \A i \in 1..Len(scores) : scores[i].score <= m

\* [name for name, score in scores.items() if score == max_score]
RECURSIVE names_with_score(_, _)
names_with_score(scores, m) ==
    IF scores = <<>> THEN <<>>
    ELSE (IF Head(scores).score = m THEN <<Head(scores).name>> ELSE <<>>)
         \o names_with_score(Tail(scores), m)

\* matched_rule: <<>> stands for None (no rule scored)
NoRule == <<>>

\* a variant of match_rule that takes the first best rule in dict order, unsorted
match_rule_insertion_order(patterns, idea_lower) ==
    LET scores == rule_scores(patterns, idea_lower) IN
    IF scores = <<>> THEN NoRule
    ELSE names_with_score(scores, max_score(scores))[1]

match_rule(patterns, idea_lower) ==
    LET scores == rule_scores(patterns, idea_lower) IN
    IF scores = <<>> THEN NoRule
    ELSE LET best_rules == Sorted(names_with_score(scores, max_score(scores)))
         IN  best_rules[1]

default_plan ==
    [rule_matched |-> <<"D","e","f","a","u","l","t">>,
     segment |-> JStr("General Audience"),
     cadence |-> JStr("0-7"),
     channel |-> JStr("Email"),
     variants |-> JInt(1),
     auto_handled |-> <<"Segment selection", "Basic scheduling">>]

\* a variant of handlers that follows the key order of the auto_plan dict
handlers_plan_key_order ==
    << [key |-> "segment", label |-> "Segment", suffix |-> ""],
       [key |-> "cadence", label |-> "Cadence", suffix |-> ""],
       [key |-> "channel", label |-> "Channel", suffix |-> ""],
       [key |-> "variants", label |-> "Creative variants", suffix |-> ""],
       [key |-> "ab_tests", label |-> "A/B tests", suffix |-> " variants"],
       [key |-> "length", label |-> "Video length", suffix |-> "s"],
       [key |-> "format", label |-> "Format", suffix |-> ""] >>

\* the (field, label, unit suffix) descriptors, in order; "" stands for None
handlers ==
    << [key |-> "segment", label |-> "Segment", suffix |-> ""],
       [key |-> "cadence", label |-> "Cadence", suffix |-> ""],
       [key |-> "channel", label |-> "Channel", suffix |-> ""],
       [key |-> "ab_tests", label |-> "A/B tests", suffix |-> " variants"],
       [key |-> "variants", label |-> "Creative variants", suffix |-> ""],
       [key |-> "length", label |-> "Video length", suffix |-> "s"],
       [key |-> "format", label |-> "Format", suffix |-> ""] >>

\* the loop over handlers: one line per descriptor whose value is truthy
RECURSIVE auto_handled_lines(_, _)
auto_handled_lines(plan, hs) ==
    IF hs = <<>> THEN <<>>
    ELSE LET h == Head(hs)
             value == plan[h.key]
         IN  (IF Truthy(value)
              THEN << h.label \o ": " \o Format(value) \o h.suffix >>
              ELSE <<>>)
             \o auto_handled_lines(plan, Tail(hs))

----------------------------------------------------------------------------
(* Dates: datetime.date, isoformat, timedelta(days=1), strptime            *)

Date(y, m, d) == [y |-> y, m |-> m, d |-> d]

IsLeap(y) == (y % 4 = 0 /\ y % 100 # 0) \/ y % 400 = 0

DaysInMonth(y, m) ==
    IF m = 2 THEN (IF IsLeap(y) THEN 29 ELSE 28)
    ELSE IF m \in {4, 6, 9, 11} THEN 30
    ELSE 31

\* date + timedelta(days=1)
NextDay(dt) ==
    IF dt.d < DaysInMonth(dt.y, dt.m) THEN Date(dt.y, dt.m, dt.d + 1)
    ELSE IF dt.m < 12 THEN Date(dt.y, dt.m + 1, 1)
    ELSE Date(dt.y + 1, 1, 1)

Digit(k) == DigitStr[k + 1]

\* date.isoformat(): YYYY-MM-DD, zero padded
isoformat(dt) ==
    << Digit(dt.y \div 1000), Digit((dt.y \div 100) % 10), Digit((dt.y \div 10) % 10),
       Digit(dt.y % 10), "-", Digit(dt.m \div 10), Digit(dt.m % 10), "-",
       Digit(dt.d \div 10), Digit(dt.d % 10) >>

\* _today_iso()
today_iso(now) == isoformat(now)

IsDigit(c) == \E k \in 0..9 : c = Digit(k)
DigitVal(c) == CHOOSE k \in 0..9 : c = Digit(k)

\* the result of a failed parse
NoDate == Date(0, 0, 0)

\* datetime.strptime(s, "%Y-%m-%d").date(), or NoDate where it raises
\* ValueError.  The format compiles to the regular expression
\*   (\d\d\d\d)-(1[0-2]|0[1-9]|[1-9])-(3[01]|[12]\d|0[1-9]|[1-9]| [1-9])
\* which must match a prefix of s that is all of s; the year must be >= 1
\* and the day must exist in the month.
strptime(s) ==
    LET n == Len(s)
        at(i) == IF i <= n THEN s[i] ELSE ""
        yearOk == n >= 5 /\ \A i \in 1..4 : IsDigit(s[i])
        year == 1000 * DigitVal(s[1]) + 100 * DigitVal(s[2]) + 10 * DigitVal(s[3]) + DigitVal(s[4])
        \* month: two characters where they match, else one
        m2 == \/ (at(6) = "1" /\ at(7) \in {"0", "1", "2"})
              \/ (at(6) = "0" /\ IsDigit(at(7)) /\ at(7) # "0")
        m1 == IsDigit(at(6)) /\ at(6) # "0"
        monthLen == IF m2 /\ at(8) = "-" THEN 2
                    ELSE IF m1 /\ at(7) = "-" THEN 1
                    ELSE 0
        month == IF monthLen = 2 THEN 10 * DigitVal(s[6]) + DigitVal(s[7])
                 ELSE DigitVal(s[6])
        p == 6 + monthLen + 1      \* first character of the day
        dayLen == IF at(p) = "3" /\ at(p + 1) \in {"0", "1"} THEN 2
                  ELSE IF at(p) \in {"1", "2"} /\ IsDigit(at(p + 1)) THEN 2
                  ELSE IF at(p) = "0" /\ IsDigit(at(p + 1)) /\ at(p + 1) # "0" THEN 2
                  ELSE IF IsDigit(at(p)) /\ at(p) # "0" THEN 1
                  ELSE IF at(p) = " " /\ IsDigit(at(p + 1)) /\ at(p + 1) # "0" THEN 2
                  ELSE 0
        day == IF dayLen = 1 THEN DigitVal(s[p])
               ELSE IF at(p) = " " THEN DigitVal(s[p + 1])
               ELSE 10 * DigitVal(s[p]) + DigitVal(s[p + 1])
    IN  IF ~yearOk \/ s[5] # "-" \/ monthLen = 0 THEN NoDate
        ELSE IF dayLen = 0 \/ p + dayLen - 1 # n THEN NoDate
        ELSE IF year < 1 \/ day > DaysInMonth(year, month) THEN NoDate
        ELSE Date(year, month, day)

----------------------------------------------------------------------------
(* The state record and the state file *)

\* sample_state(): the canned record.  A dict is a function from its keys;
\* collections are sequences.  The collections that no command of main
\* reads or writes (quick_templates, benchmarks, connectors, backend,
\* databases, analytics, feedback) are left out of the record.
sample_state(now) ==
    LET tomorrow == NextDay(now) IN
    [profile |-> [business_name |-> "Acme Components", owner |-> "You"],
     segments |-> <<
        [name |-> "New Leads", criteria |-> <<"Created < 30 days", "Matches ICP industries">>,
         size |-> 34, nurtured |-> 23],
        [name |-> "Active Customers", criteria |-> <<"Touched product in last 14 days">>,
         size |-> 18, nurtured |-> 15],
        [name |-> "Dormant Accounts", criteria |-> <<"No activity > 30 days">>,
         size |-> 12, nurtured |-> 5] >>,
     campaigns |-> <<
        [name |-> "Onboarding Drip", segment |-> "New Leads", trigger |-> "Sign-up form",
         channel |-> "Email", template |-> "Welcome Series", status |-> "scheduled",
         next_send |-> isoformat(tomorrow)],
        [name |-> "Win-back Sequence", segment |-> "Dormant Accounts", trigger |-> "Inactivity 30d",
         channel |-> "Email", template |-> "Re-engagement", status |-> "ready",
         next_send |-> isoformat(tomorrow)],
        [name |-> "Post-demo Follow-up", segment |-> "Active Customers", trigger |-> "Demo completed",
         channel |-> "Email + Call task", template |-> "Demo Recap", status |-> "running",
         next_send |-> today_iso(now)] >>,
     templates |-> <<
        [name |-> "Welcome Series", medium |-> "Email", purpose |-> "Onboarding",
         last_updated |-> today_iso(now)],
        [name |-> "Re-engagement", medium |-> "Email", purpose |-> "Win-back",
         last_updated |-> today_iso(now)],
        [name |-> "Product Tour Deck", medium |-> "Presentation", purpose |-> "Sales enablement",
         last_updated |-> today_iso(now)] >>,
     integrations |-> <<
        [name |-> "CRM (HubSpot)", status |-> "connected", detail |-> "API token valid"],
        [name |-> "Email (SendGrid)", status |-> "connected", detail |-> "Sender verified"],
        [name |-> "Social (LinkedIn)", status |-> "pending", detail |-> "OAuth to finish"] >>,
     actions |-> <<
        [title |-> "A/B test CTA for New Leads", due |-> today_iso(now), owner |-> "You"],
        [title |-> "Send nurture to Dormant Accounts", due |-> isoformat(tomorrow), owner |-> "You"],
        [title |-> "Sync CRM deal stages", due |-> isoformat(tomorrow), owner |-> "You"] >>,
     strategies |-> <<
        [name |-> "ABM", full_name |-> "Account-Based Marketing",
         description |-> "Target high-value accounts with personalized campaigns",
         steps |-> <<"Identify target accounts", "Personalize content",
                     "Multi-channel outreach", "Measure engagement">>,
         channels |-> <<"Email", "LinkedIn", "Call">>,
         best_for_segments |-> <<"New Leads", "Active Customers">>],
        [name |-> "AIDA", full_name |-> "Attention-Interest-Desire-Action",
         description |-> "Classic content funnel framework",
         steps |-> <<"Grab attention", "Build interest", "Create desire", "Drive action">>,
         channels |-> <<"Email", "Social", "Ads">>,
         best_for_segments |-> <<"All">>],
        [name |-> "RACE", full_name |-> "Reach-Act-Convert-Engage",
         description |-> "Omnichannel planning framework",
         steps |-> <<"Reach new audience", "Act/Interact", "Convert to leads", "Engage long-term">>,
         channels |-> <<"Social", "Email", "Website">>,
         best_for_segments |-> <<"New Leads", "Dormant Accounts">>],
        [name |-> "7Ps", full_name |-> "7Ps Marketing Mix",
         description |-> "Holistic B2B planning framework",
         steps |-> <<"Product", "Price", "Place", "Promotion", "People", "Process",
                     "Physical Evidence">>,
         channels |-> <<"All">>,
         best_for_segments |-> <<"Active Customers">>] >>,
     videos |-> <<
        [template |-> "Product Tour Deck", output_path |-> "data/videos/product_tour.mp4",
         duration |-> 45, status |-> "ready",
         generated |-> <<"2","0","2","5","-","1","2","-","2","0">>] >>,
     automation_rules |-> sample_automation_rules]

\* A state file written by hand or by an older version: no campaigns and no
\* videos key, and strategies whose names overlap, whose steps or channels
\* are empty, or that lack keys.
edited_state ==
    [profile |-> [business_name |-> "Solo"],
     segments |-> << [name |-> "New Leads", size |-> 0], [name |-> "Trials", size |-> 4, nurtured |-> 1] >>,
     templates |-> << [name |-> "Welcome Series", medium |-> "Email"] >>,
     strategies |-> <<
        [name |-> "Alpha", full_name |-> "Beta", steps |-> <<"Plan">>, channels |-> <<"All", "SMS">>],
        [name |-> "Beta", full_name |-> "Gamma", steps |-> <<"Ship">>, channels |-> <<"All", "All">>],
        [name |-> "NoSteps", full_name |-> "Empty Steps", steps |-> <<>>, channels |-> <<"Email">>],
        [name |-> "NoChannels", full_name |-> "Empty Channels", steps |-> <<"Call">>, channels |-> <<>>],
        [full_name |-> "Bare", steps |-> <<"Start">>] >>]

\* The sample record after earlier invocations: a campaign added by
\* --add-campaign and a second video.
grown_state(now) ==
    LET st == sample_state(now) IN
    [st EXCEPT
        !.campaigns = Append(@, [name |-> "Promo", segment |-> "New Leads", trigger |-> "Manual",
                                 channel |-> "SMS", template |-> "Welcome Series",
                                 status |-> "scheduled", next_send |-> today_iso(now)]),
        !.videos = Append(@, [template |-> "Welcome Series", output_path |-> "out/promo.mp4",
                              duration |-> 10, status |-> "ready",
                              generated |-> today_iso(now)])]

\* Content of data/state.json: no file, text that is not JSON, bytes that
\* are not UTF-8 text, or a JSON text.
Absent == [kind |-> "absent", data |-> EmptyDict]
Corrupt == [kind |-> "corrupt", data |-> EmptyDict]
Undecodable == [kind |-> "undecodable", data |-> EmptyDict]

\* json.dump(state, handle, indent=2)
json_dump(st) == [kind |-> "json", data |-> st]

\* json.load(handle), for a file that holds JSON
json_load(file) == file.data

\* save_state(state): the file content after the call
save_state(st) == json_dump(st)

\* reset_state(): the record it returns; the caller's file becomes save_state of it
reset_state(now) == sample_state(now)

\* load_state(): the record it returns and the file content it leaves.
\* json.load reads the file as UTF-8 text first; the UnicodeDecodeError of
\* bytes that are not UTF-8 is no json.JSONDecodeError and leaves the
\* function (raised).
load_state(file, now) ==
    IF file.kind = "absent" THEN
        [state |-> reset_state(now), file |-> save_state(reset_state(now)), saved |-> TRUE,
         raised |-> FALSE]
    ELSE IF file.kind = "undecodable" THEN
        [state |-> EmptyDict, file |-> file, saved |-> FALSE, raised |-> TRUE]
    ELSE IF file.kind = "corrupt" THEN
        [state |-> reset_state(now), file |-> save_state(reset_state(now)), saved |-> TRUE,
         raised |-> FALSE]
    ELSE
        [state |-> json_load(file), file |-> file, saved |-> FALSE, raised |-> FALSE]

\* ", ".join(names)
RECURSIVE Join(_)
Join(names) ==
    IF names = <<>> THEN ""
    ELSE IF Len(names) = 1 THEN names[1]
    ELSE names[1] \o ", " \o Join(Tail(names))

----------------------------------------------------------------------------
(* generate_auto_plan: the plan for a phrase and a rule table *)

\* The rule table argument is None or a table.
NoTable == [none |-> TRUE, table |-> EmptyDict]
Table(t) == [none |-> FALSE, table |-> t]

\* generate_auto_plan(creative_idea, automation_rules) called on the date
\* `now`: without a table it takes the rules of sample_state(), which reads
\* the clock for the dates of the sample record (lines 1078-1080)
generate_auto_plan(idea, rules, now) ==
    LET idea_lower == Lower(normalize_idea(idea))
        matched_rule == match_rule(rule_patterns, idea_lower)
    IN  IF matched_rule = NoRule THEN default_plan
        ELSE LET table == IF rules.none
                          THEN Get(sample_state(now), "automation_rules", EmptyDict)
                          ELSE rules.table
                 rule_config == Get(table, matched_rule, EmptyDict)
                 plan == [rule_matched |-> matched_rule,
                          segment |-> Get(rule_config, "segment", JStr("General Audience")),
                          cadence |-> Get(rule_config, "cadence", JStr("0-7")),
                          channel |-> Get(rule_config, "channel", JStr("Email")),
                          variants |-> Get(rule_config, "variants", JInt(1)),
                          ab_tests |-> Get(rule_config, "ab_tests", JNone),
                          length |-> Get(rule_config, "length", JNone),
                          format |-> Get(rule_config, "format", JNone)]
             IN  [k \in DOMAIN plan \cup {"auto_handled"} |->
                     IF k = "auto_handled" THEN auto_handled_lines(plan, handlers)
                     ELSE plan[k]]

\* a variant of generate_auto_plan_call that builds default_plan once and
\* keeps it (a module-level dict): every call that matches no rule returns
\* the dict the first such call returned
generate_auto_plan_call_keeps_default(idea, rules, file, now, objects) ==
    LET plan == generate_auto_plan(idea, rules, now)
        kept == {k \in 1..Len(objects) : objects[k].rule_matched = default_plan.rule_matched}
    IN  IF plan.rule_matched = default_plan.rule_matched /\ kept # {}
        THEN [plan |-> CHOOSE k \in kept : \A j \in kept : k <= j,
              objects |-> objects, rules |-> rules, file |-> file]
        ELSE [plan |-> Len(objects) + 1, objects |-> Append(objects, plan),
              rules |-> rules, file |-> file]

\* a call of generate_auto_plan on the date `now` with what it leaves
\* behind: the dicts that callers hold (`objects`: the plans earlier calls
\* returned, as their callers have left them) with the dict this call
\* returns at the end, the place of the returned dict among them, the rule
\* table argument and data/state.json after the call.  Every call builds
\* rule_patterns, scores, default_plan, auto_plan and handlers anew (dict
\* and list displays in the body, lines 1046-1101) and the function has no
\* other name to keep a value under; it reads the table with .get only and
\* builds sample_state() without saving it.
generate_auto_plan_call(idea, rules, file, now, objects) ==
    [plan |-> Len(objects) + 1,
     objects |-> Append(objects, generate_auto_plan(idea, rules, now)),
     rules |-> rules, file |-> file]

\* what a caller does to a plan it was given: auto_plan["auto_handled"].append(...)
CallerLine == "Reviewed by the caller"
caller_edit(plan) == [plan EXCEPT !["auto_handled"] = Append(@, CallerLine)]

----------------------------------------------------------------------------
(* Inputs of the rule matcher *)

\* the pieces phrases are built from: keywords in mixed case, parts of the
\* two-word keyword "tech lead", whitespace, and a word no rule knows
Tokens ==
    { <<"d","e","m","o">>, <<"V","i","d","e","o">>, <<"C","T","O">>, <<"v","p">>,
      <<"S","a","l","e","s">>, <<"t","e","c","h">>, <<"l","e","a","d">>,
      <<" ">>, <<"\t">>, <<"x","y">> }

RECURSIVE PhrasesOfLen(_)
PhrasesOfLen(n) ==
    IF n = 0 THEN {<<>>}
    ELSE {p \o t : p \in PhrasesOfLen(n - 1), t \in Tokens}

\* "Let's build a demo video for the CTO"
FixturePhrase ==
    <<"L","e","t","'","s"," ","b","u","i","l","d"," ","a"," ","d","e","m","o"," ",
      "v","i","d","e","o"," ","f","o","r"," ","t","h","e"," ","C","T","O">>

Phrases == UNION {PhrasesOfLen(n) : n \in 0..MaxWords} \cup {FixturePhrase, GeneralCampaign}

Ideas == {NoIdea} \cup {Idea(p) : p \in Phrases}

\* a rule table that gives the video rule falsy values and omits the others
sparse_rules ==
    (<<"D","e","m","o","_","v","i","d","e","o">> :>
        [segment |-> JStr(""), variants |-> JInt(0), length |-> JInt(30)])

RuleTables == {NoTable, Table(sample_automation_rules), Table(EmptyDict), Table(sparse_rules)}

\* the plan variable before any call has returned
NoPlan == [rule_matched |-> NoRule, auto_handled |-> <<>>]

----------------------------------------------------------------------------
(* Specification of the rule matcher: callers pick a phrase and a rule     *)
(* table, call generate_auto_plan, and look at the plan.                   *)

PlanIdle ==
    /\ creative_idea = NoIdea
    /\ automation_rules = NoTable
    /\ auto_plan = NoPlan
    /\ plan_pc = "off"
    /\ plan_calls = <<>>
    /\ plan_objects = <<>>

PlanInit ==
    /\ creative_idea \in Ideas
    /\ automation_rules \in RuleTables
    /\ auto_plan = NoPlan
    /\ plan_pc = "ask"
    /\ plan_calls = <<>>
    /\ plan_objects = <<>>

\* creative_mode / a test: auto_plan = generate_auto_plan(creative_idea, rules)
CallGenerateAutoPlan ==
    /\ plan_pc = "ask"
    /\ auto_plan' = generate_auto_plan(creative_idea, automation_rules, today)
    /\ plan_pc' = "planned"
    /\ UNCHANGED <<creative_idea, automation_rules, plan_calls, plan_objects>>
    /\ UNCHANGED <<main_vars, race_vars, view_vars, store_vars>>

\* the caller drops the plan and is about to call again with the same inputs
AskAgain ==
    /\ plan_pc = "planned"
    /\ auto_plan' = NoPlan
    /\ plan_pc' = "ask"
    /\ UNCHANGED <<creative_idea, automation_rules, plan_calls, plan_objects>>
    /\ UNCHANGED <<main_vars, race_vars, view_vars, store_vars>>

\* ---- calls one after the other, on phrases of the caller's choice ----

\* the phrases of repeated calls: none, the fixture phrase, a phrase of the
\* enterprise rule, and one no rule knows
CallIdeas ==
    { NoIdea, Idea(FixturePhrase), Idea(<<"v","p"," ","S","a","l","e","s">>), Idea(<<"x","y">>) }

CallsInit ==
    /\ creative_idea = NoIdea
    /\ automation_rules \in RuleTables
    /\ auto_plan = NoPlan
    /\ plan_pc = "calls"
    /\ plan_calls = <<>>
    /\ plan_objects = <<>>

----------------------------------------------------------------------------
(* The commands, as functions of the in-memory state record.  Each returns *)
(* ok (FALSE: it raised SystemExit with msg), the state record it leaves   *)
(* in memory, whether it called save_state, and the lines it printed.      *)

\* dict.setdefault(key, default): the dict afterwards
SetDefault(d, key, default) ==
    IF key \in DOMAIN d THEN d
    ELSE [k \in DOMAIN d \cup {key} |-> IF k = key THEN default ELSE d[k]]

\* d[key] = value: the dict afterwards
Put(d, key, value) ==
    [k \in DOMAIN d \cup {key} |-> IF k = key THEN value ELSE d[k]]

\* dict.update(other): the dict afterwards
Update(d, other) ==
    [k \in DOMAIN d \cup DOMAIN other |-> IF k \in DOMAIN other THEN other[k] ELSE d[k]]

\* [r.get("name", "") for r in records]
NamesOf(records) == [i \in 1..Len(records) |-> Get(records[i], "name", "")]

Raised(st, msg) == [ok |-> FALSE, state |-> st, msg |-> msg, saved |-> FALSE, lines |-> <<>>]
Returned(st, saved, lines) == [ok |-> TRUE, state |-> st, msg |-> "", saved |-> saved, lines |-> lines]

\* s.get("name") == strategy_name or s.get("full_name") == strategy_name
strategy_matches(s, strategy_name) ==
    \/ ("name" \in DOMAIN s /\ s["name"] = strategy_name)
    \/ ("full_name" \in DOMAIN s /\ s["full_name"] = strategy_name)

\* a variant of find_strategy that looks for a short-name match in the whole
\* collection before it tries the full names
find_strategy_name_first(strategies, strategy_name) ==
    LET byName == {i \in 1..Len(strategies) :
                      "name" \in DOMAIN strategies[i] /\ strategies[i]["name"] = strategy_name}
        byFull == {i \in 1..Len(strategies) :
                      "full_name" \in DOMAIN strategies[i]
                      /\ strategies[i]["full_name"] = strategy_name}
    IN  IF byName # {} THEN CHOOSE i \in byName : \A j \in byName : i <= j
        ELSE IF byFull # {} THEN CHOOSE i \in byFull : \A j \in byFull : i <= j
        ELSE 0

\* the loop `for s in strategies: if ...: strategy = s; break`:
\* the index of the first match, 0 when the loop ends without one
find_strategy(strategies, strategy_name) ==
    LET hits == {i \in 1..Len(strategies) : strategy_matches(strategies[i], strategy_name)}
    IN  IF hits = {} THEN 0 ELSE CHOOSE i \in hits : \A j \in hits : i <= j

\* any(seg.get("name") == segment_name for seg in segments)
segment_exists(segments, segment_name) ==
    \E i \in 1..Len(segments) :
        "name" \in DOMAIN segments[i] /\ segments[i]["name"] = segment_name

\* the channel of the generated campaign (called with steps and channels non-empty)
select_channel(channels) ==
    LET non_all_channels == SelectSeq(channels, LAMBDA ch : ch # "All")
    IN  IF non_all_channels # <<>> THEN non_all_channels[1]
        ELSE IF channels # <<>> THEN channels[1] ELSE "Email"

\* the check mark U+2713 of the console lines ("[green]...[/green]" is markup
\* of the console and prints nothing), written with a stand-in
CheckMark == "(ok)"

\* the same function reporting the number of campaigns it appended
apply_strategy_to_segment_counts_added(strategy_name, segment_name, st, now) ==
    LET strategies == Get(st, "strategies", <<>>)
        found == find_strategy(strategies, strategy_name)
        segments == Get(st, "segments", <<>>)
    IN  IF found = 0 THEN
            Raised(st, "Strategy '" \o strategy_name \o "' not found. Available: "
                       \o Join(NamesOf(strategies)))
        ELSE IF ~segment_exists(segments, segment_name) THEN
            Raised(st, "Segment '" \o segment_name \o "' not found. Available: "
                       \o Join(NamesOf(segments)))
        ELSE
            LET strategy == strategies[found]
                st1 == SetDefault(st, "campaigns", <<>>)
                channels == Get(strategy, "channels", <<"Email">>)
                steps == Get(strategy, "steps", <<>>)
                tomorrow == isoformat(NextDay(now))
                campaign ==
                    [name |-> Get(strategy, "name", "Strategy") \o ": " \o steps[1],
                     segment |-> segment_name,
                     trigger |-> "Strategy: " \o Get(strategy, "name", ""),
                     channel |-> select_channel(channels),
                     template |-> Get(strategy, "name", "") \o " Template",
                     status |-> "ready",
                     next_send |-> tomorrow]
                st2 == IF steps # <<>> /\ channels # <<>>
                       THEN Put(st1, "campaigns", Append(st1["campaigns"], campaign))
                       ELSE st1
            IN  Returned(st2, TRUE,
                    << CheckMark \o " Applied strategy '" \o Get(strategy, "full_name", strategy_name)
                           \o "' to segment '" \o segment_name \o "'",
                       IF steps # <<>> /\ channels # <<>>
                       THEN "  Generated 1 campaign(s)"
                       ELSE "  Generated 0 campaign(s)" >>)

\* apply_strategy_to_segment(args, state): what it raises, or the record it
\* leaves, whether it saved and what it printed
apply_strategy_to_segment(strategy_name, segment_name, st, now) ==
    LET strategies == Get(st, "strategies", <<>>)
        found == find_strategy(strategies, strategy_name)
        segments == Get(st, "segments", <<>>)
    IN  IF found = 0 THEN
            Raised(st, "Strategy '" \o strategy_name \o "' not found. Available: "
                       \o Join(NamesOf(strategies)))
        ELSE IF ~segment_exists(segments, segment_name) THEN
            Raised(st, "Segment '" \o segment_name \o "' not found. Available: "
                       \o Join(NamesOf(segments)))
        ELSE
            LET strategy == strategies[found]
                st1 == SetDefault(st, "campaigns", <<>>)
                channels == Get(strategy, "channels", <<"Email">>)
                steps == Get(strategy, "steps", <<>>)
                tomorrow == isoformat(NextDay(now))
                campaign ==
                    [name |-> Get(strategy, "name", "Strategy") \o ": " \o steps[1],
                     segment |-> segment_name,
                     trigger |-> "Strategy: " \o Get(strategy, "name", ""),
                     channel |-> select_channel(channels),
                     template |-> Get(strategy, "name", "") \o " Template",
                     status |-> "ready",
                     next_send |-> tomorrow]
                st2 == IF steps # <<>> /\ channels # <<>>
                       THEN Put(st1, "campaigns", Append(st1["campaigns"], campaign))
                       ELSE st1
            IN  Returned(st2, TRUE,
                    << CheckMark \o " Applied strategy '" \o Get(strategy, "full_name", strategy_name)
                           \o "' to segment '" \o segment_name \o "'",
                       "  Generated 1 campaign(s)" >>)

\* the index of the first template / video whose field equals the value, 0 if none
find_by(records, field, value) ==
    LET hits == {i \in 1..Len(records) :
                    field \in DOMAIN records[i] /\ records[i][field] = value}
    IN  IF hits = {} THEN 0 ELSE CHOOSE i \in hits : \A j \in hits : i <= j

\* a variant of record_video that always appends the new entry
record_video_always_append(videos, video_data) == Append(videos, video_data)

\* lines 993-1010: update the entry with the same output_path, else append
record_video(videos, video_data) ==
    LET existing_video == find_by(videos, "output_path", video_data.output_path)
    IN  IF existing_video # 0
        THEN [videos EXCEPT ![existing_video] = Update(@, video_data)]
        ELSE Append(videos, video_data)

\* a variant of video_failure that does not notice a failed encode
video_failure_encode_ignored(templates, template_name, import_ok, encode_ok) ==
    IF find_by(templates, "name", template_name) = 0 THEN
        "Template '" \o template_name \o "' not found. Available: " \o Join(NamesOf(templates))
    ELSE IF ~import_ok THEN "MoviePy not installed. Install with: pip install moviepy"
    ELSE ""

\* the SystemExit message of generate_marketing_video, "" when nothing fails.
\* import_ok: `from moviepy.editor import ...` succeeds;
\* encode_ok: building the clip and write_videofile succeed
video_failure(templates, template_name, import_ok, encode_ok) ==
    IF find_by(templates, "name", template_name) = 0 THEN
        "Template '" \o template_name \o "' not found. Available: " \o Join(NamesOf(templates))
    ELSE IF ~import_ok THEN "MoviePy not installed. Install with: pip install moviepy"
    ELSE IF ~encode_ok THEN "Failed to generate video: encoder error"
    ELSE ""

generate_marketing_video(template_name, output_path, st, now, import_ok, encode_ok) ==
    LET failure == video_failure(Get(st, "templates", <<>>), template_name, import_ok, encode_ok)
    IN  IF failure # "" THEN Raised(st, failure)
        ELSE
            LET st1 == SetDefault(st, "videos", <<>>)
                video_data == [template |-> template_name,
                               output_path |-> output_path,
                               duration |-> 10,
                               status |-> "ready",
                               generated |-> today_iso(now)]
            IN  Returned(Put(st1, "videos", record_video(st1["videos"], video_data)), TRUE,
                    << CheckMark \o " Generated video from template '" \o template_name \o "' to '"
                           \o output_path \o "'" >>)

\* An optional date text (args.next_send): None or a string.
NoText == [none |-> TRUE, text |-> <<>>]
Text(t) == [none |-> FALSE, text |-> t]

\* validate_next_send: ok and the value it returns, or not ok (SystemExit)
validate_next_send(next_send) ==
    IF next_send.none \/ next_send.text = <<>> THEN [ok |-> TRUE, value |-> NoText]
    ELSE IF strptime(next_send.text) = NoDate THEN [ok |-> FALSE, value |-> next_send]
    ELSE [ok |-> TRUE, value |-> next_send]

\* ensure_valid_campaign_args: the names of the missing required fields, in order
missing_fields(a) ==
    SelectSeq(<<"name", "segment", "trigger", "channel", "template">>,
              LAMBDA key : ~Truthy(a[key]))

\* a variant of add_campaign that refuses a segment the record does not hold
add_campaign_checks_segment(a, st, now) ==
    LET st1 == SetDefault(st, "campaigns", <<>>)
        campaign == [name |-> a.name.s,
                     segment |-> a.segment.s,
                     trigger |-> a.trigger.s,
                     channel |-> a.channel.s,
                     template |-> a.template.s,
                     status |-> a.status,
                     next_send |-> IF a.next_send.none \/ a.next_send.text = <<>>
                                   THEN today_iso(now) ELSE a.next_send.text]
    IN  IF ~segment_exists(Get(st, "segments", <<>>), a.segment.s)
        THEN Raised(st, "Segment '" \o a.segment.s \o "' not found.")
        ELSE Returned(Put(st1, "campaigns", Append(st1["campaigns"], campaign)), TRUE, <<>>)

\* a variant of add_campaign that leaves the file to a later command
add_campaign_unsaved(a, st, now) ==
    LET st1 == SetDefault(st, "campaigns", <<>>)
        campaign == [name |-> a.name.s,
                     segment |-> a.segment.s,
                     trigger |-> a.trigger.s,
                     channel |-> a.channel.s,
                     template |-> a.template.s,
                     status |-> a.status,
                     next_send |-> IF a.next_send.none \/ a.next_send.text = <<>>
                                   THEN today_iso(now) ELSE a.next_send.text]
    IN  Returned(Put(st1, "campaigns", Append(st1["campaigns"], campaign)), FALSE, <<>>)

\* a variant of add_campaign that replaces campaigns of the same name
add_campaign_dedup(a, st, now) ==
    LET st1 == SetDefault(st, "campaigns", <<>>)
        campaign == [name |-> a.name.s,
                     segment |-> a.segment.s,
                     trigger |-> a.trigger.s,
                     channel |-> a.channel.s,
                     template |-> a.template.s,
                     status |-> a.status,
                     next_send |-> IF a.next_send.none \/ a.next_send.text = <<>>
                                   THEN today_iso(now) ELSE a.next_send.text]
        others == SelectSeq(st1["campaigns"], LAMBDA c : c.name # campaign.name)
    IN  Returned(Put(st1, "campaigns", Append(others, campaign)), TRUE, <<>>)

add_campaign(a, st, now) ==
    LET st1 == SetDefault(st, "campaigns", <<>>)
        campaign == [name |-> a.name.s,
                     segment |-> a.segment.s,
                     trigger |-> a.trigger.s,
                     channel |-> a.channel.s,
                     template |-> a.template.s,
                     status |-> a.status,
                     next_send |-> IF a.next_send.none \/ a.next_send.text = <<>>
                                   THEN today_iso(now) ELSE a.next_send.text]
    IN  Returned(Put(st1, "campaigns", Append(st1["campaigns"], campaign)), TRUE, <<>>)

----------------------------------------------------------------------------
(* Inputs of main *)

\* the dates the clock can show: the day before a leap day and the last day
\* of a year
Dates == {Date(2024, 2, 28), Date(2025, 12, 31)}

\* the state files an invocation can find
InitialFiles(now) ==
    {Absent, Corrupt, json_dump(sample_state(now)), json_dump(edited_state),
     json_dump(grown_state(now))}

\* the state files the first invocation can find: those, or a file whose
\* bytes are not UTF-8 text
StoredFiles(now) == InitialFiles(now) \cup {Undecodable}

\* argparse defaults
\* a pathlib.Path: its anchor ("/" or none) and the parts after it
Path(anchor, parts) == [anchor |-> anchor, parts |-> parts]

\* "/".join(parts)
RECURSIVE JoinParts(_)
JoinParts(parts) ==
    IF parts = <<>> THEN ""
    ELSE IF Len(parts) = 1 THEN parts[1]
    ELSE parts[1] \o "/" \o JoinParts(Tail(parts))

\* str(path): a path with no parts is its anchor, or "." without one
PathStr(path) ==
    IF path.parts = <<>> THEN (IF path.anchor = "" THEN "." ELSE path.anchor)
    ELSE path.anchor \o JoinParts(path.parts)

\* path.parent: the path without its last part
PathParent(path) ==
    IF path.parts = <<>> THEN path
    ELSE Path(path.anchor, SubSeq(path.parts, 1, Len(path.parts) - 1))

\* the directory of the program file
BASE_DIR == Path("/", <<"opt", "dashboard">>)

DEFAULT_SNAPSHOT_PATH == Path(BASE_DIR.anchor, BASE_DIR.parts \o <<"docs", "dashboard_snapshot.svg">>)

ArgDefaults ==
    [reset_sample |-> FALSE, add_campaign |-> FALSE, select_strategy |-> JNone,
     generate_video |-> FALSE, name |-> JNone, segment |-> JNone, trigger |-> JNone,
     channel |-> JNone, template |-> JNone, status |-> "scheduled",
     next_send |-> NoText, output |-> JNone,
     summary |-> FALSE, snapshot |-> FALSE, brief |-> FALSE,
     export_cards |-> FALSE, creative_mode |-> FALSE,
     snapshot_path |-> DEFAULT_SNAPSHOT_PATH]

\* --snapshot-path: the default, a bare file name, and a file in a directory
SnapshotPathArgs ==
    {DEFAULT_SNAPSHOT_PATH, Path("", <<"board.svg">>), Path("", <<"snap", "board.svg">>)}

SegmentArgs == {JNone, JStr("New Leads"), JStr("Ghost")}
TemplateArgs == {JNone, JStr("Welcome Series"), JStr("Nope")}
NextSendArgs ==
    {NoText, Text(<<"2","0","2","6","-","1","1","-","0","5">>),
     Text(<<"2","0","2","6","-","1","3","-","0","1">>)}
NameArgs == {JNone, JStr(""), JStr("Promo")}
TriggerArgs == {JNone, JStr("Manual")}
ChannelArgs == {JNone, JStr("SMS")}
StatusArgs == {"scheduled", "paused"}
StrategyArgs ==
    {JNone, JStr("ABM"), JStr("7Ps Marketing Mix"), JStr("Bogus"), JStr("Beta"),
     JStr("NoSteps"), JStr("NoChannels"), JStr("Bare")}
OutputArgs == {JNone, JStr("data/videos/product_tour.mp4"), JStr("out/promo.mp4")}

----------------------------------------------------------------------------
(* Specification of main: invocations run one after the other, each to     *)
(* completion.  The options that several commands share (--segment,        *)
(* --template, --next-send) are drawn when the invocation starts; the flag *)
(* and the private options of a command are drawn when main reaches the    *)
(* command, which is where main first reads them.                          *)

\* prev: the last step of main (cmd), whether its command was requested (ran),
\* whether it returned (ok) or raised SystemExit, the state record before it,
\* and what the multimedia library did (import_ok, encode_ok)
NoCommand ==
    [cmd |-> "none", ran |-> FALSE, ok |-> TRUE, state |-> EmptyDict,
     import_ok |-> TRUE, encode_ok |-> TRUE]
Command(cmd, ran, ok, st) == [NoCommand EXCEPT !.cmd = cmd, !.ran = ran, !.ok = ok, !.state = st]

MainIdle ==
    /\ disk = Absent
    /\ state = EmptyDict
    /\ args = ArgDefaults
    /\ pc = "off"
    /\ exit_msg = ""
    /\ console = <<>>
    /\ saves = <<>>
    /\ disk0 = Absent
    /\ prev = NoCommand
    /\ today = Date(2026, 10, 30)
    /\ runs = 0

MainInit ==
    /\ today \in Dates
    /\ disk \in StoredFiles(today)
    /\ state = EmptyDict
    /\ args = ArgDefaults
    /\ pc = "idle"
    /\ exit_msg = ""
    /\ console = <<>>
    /\ saves = <<>>
    /\ disk0 = disk
    /\ prev = NoCommand
    /\ runs = 0

\* main, lines 1330-1331: parse_args() and state = load_state(); an
\* exception of load_state ends the invocation
Start ==
    /\ pc \in {"idle", "done", "failed", "crashed"}
    /\ runs < MaxRuns
    /\ \E seg \in SegmentArgs, tmpl \in TemplateArgs, ns \in NextSendArgs :
          args' = [ArgDefaults EXCEPT !.segment = seg, !.template = tmpl, !.next_send = ns]
    /\ LET loaded == load_state(disk, today) IN
          /\ state' = loaded.state
          /\ disk' = loaded.file
          /\ saves' = IF loaded.saved THEN <<"load_state">> ELSE <<>>
          /\ pc' = IF loaded.raised THEN "crashed" ELSE "loaded"
          /\ exit_msg' = IF loaded.raised THEN "UnicodeDecodeError" ELSE ""
          /\ prev' = Command("load", TRUE, ~loaded.raised, EmptyDict)
    /\ disk0' = disk
    /\ console' = <<>>
    /\ runs' = runs + 1
    /\ UNCHANGED today
    /\ UNCHANGED <<plan_vars, race_vars, view_vars, store_vars>>

\* main, line 1333: args.next_send = validate_next_send(args.next_send)
ValidateNextSend ==
    /\ pc = "loaded"
    /\ LET v == validate_next_send(args.next_send) IN
          /\ args' = [args EXCEPT !.next_send = v.value]
          /\ pc' = IF v.ok THEN "validated" ELSE "failed"
          /\ exit_msg' = IF v.ok THEN "" ELSE "Invalid --next-send date. Use YYYY-MM-DD."
          /\ prev' = Command("validate", TRUE, v.ok, state)
    /\ UNCHANGED <<disk, state, console, saves, disk0, today, runs>>
    /\ UNCHANGED <<plan_vars, race_vars, view_vars, store_vars>>

\* main, lines 1335-1336: if args.reset_sample: state = reset_state()
ResetSample ==
    /\ pc = "validated"
    /\ \E flag \in BOOLEAN :
          /\ args' = [args EXCEPT !.reset_sample = flag]
          /\ state' = IF flag THEN reset_state(today) ELSE state
          /\ disk' = IF flag THEN save_state(reset_state(today)) ELSE disk
          /\ saves' = IF flag THEN Append(saves, "reset_state") ELSE saves
          /\ prev' = Command("reset", flag, TRUE, state)
    /\ pc' = "reset_done"
    /\ UNCHANGED <<exit_msg, console, disk0, today, runs>>
    /\ UNCHANGED <<plan_vars, race_vars, view_vars, store_vars>>

\* what a command that returned or raised leaves behind
Outcome(cmd, r, caller) ==
    /\ state' = r.state
    /\ disk' = IF r.saved THEN save_state(r.state) ELSE disk
    /\ saves' = IF r.saved THEN Append(saves, caller) ELSE saves
    /\ console' = console \o r.lines
    /\ exit_msg' = r.msg
    /\ prev' = Command(cmd, TRUE, r.ok, state)

Skipped(cmd) ==
    /\ prev' = Command(cmd, FALSE, TRUE, state)
    /\ UNCHANGED <<state, disk, saves, console, exit_msg>>

\* main, lines 1338-1340: ensure_valid_campaign_args(args); add_campaign(args, state)
AddCampaign ==
    /\ pc = "reset_done"
    /\ \E flag \in BOOLEAN :
          IF ~flag THEN
              /\ args' = [args EXCEPT !.add_campaign = FALSE]
              /\ Skipped("add")
              /\ pc' = "added"
          ELSE
              \E name \in NameArgs, trigger \in TriggerArgs, channel \in ChannelArgs :
                  LET a == [args EXCEPT !.add_campaign = TRUE, !.name = name,
                                        !.trigger = trigger, !.channel = channel]
                      missing == missing_fields(a)
                  IN  IF missing # <<>> THEN
                          /\ args' = a
                          /\ Outcome("add", Raised(state, "Missing required fields for campaign: "
                                                           \o Join(missing)), "add_campaign")
                          /\ pc' = "failed"
                      ELSE
                          \* --status is read by add_campaign alone (line 1240)
                          \E status \in StatusArgs :
                              /\ args' = [a EXCEPT !.status = status]
                              /\ Outcome("add", add_campaign([a EXCEPT !.status = status],
                                                             state, today), "add_campaign")
                              /\ pc' = "added"
    /\ UNCHANGED <<disk0, today, runs>>
    /\ UNCHANGED <<plan_vars, race_vars, view_vars, store_vars>>

\* main, lines 1342-1345: --select-strategy needs --segment; apply_strategy_to_segment
SelectStrategy ==
    /\ pc = "added"
    /\ \E strategy \in StrategyArgs :
          /\ args' = [args EXCEPT !.select_strategy = strategy]
          /\ IF ~Truthy(strategy) THEN
                 /\ Skipped("strategy")
                 /\ pc' = "applied"
             ELSE IF ~Truthy(args.segment) THEN
                 /\ Outcome("strategy",
                            Raised(state, "--select-strategy requires --segment to be specified"),
                            "apply_strategy_to_segment")
                 /\ pc' = "failed"
             ELSE
                 LET r == apply_strategy_to_segment(strategy.s, args.segment.s, state, today) IN
                 /\ Outcome("strategy", r, "apply_strategy_to_segment")
                 /\ pc' = IF r.ok THEN "applied" ELSE "failed"
    /\ UNCHANGED <<disk0, today, runs>>
    /\ UNCHANGED <<plan_vars, race_vars, view_vars, store_vars>>

\* main, lines 1347-1350: --generate-video needs --template and --output;
\* generate_marketing_video
GenerateVideo ==
    /\ pc = "applied"
    /\ \E flag \in BOOLEAN :
          IF ~flag THEN
              /\ args' = [args EXCEPT !.generate_video = FALSE]
              /\ Skipped("video")
              /\ pc' = "generated"
          ELSE
              \E output \in OutputArgs :
                  /\ args' = [args EXCEPT !.generate_video = TRUE, !.output = output]
                  /\ IF ~Truthy(args.template) \/ ~Truthy(output) THEN
                         /\ Outcome("video",
                                Raised(state, "--generate-video requires both --template and --output to be specified"),
                                "generate_marketing_video")
                         /\ pc' = "failed"
                     ELSE
                         \* the library is imported once the template is found, and
                         \* the encode runs once the library is imported
                         LET found == find_by(Get(state, "templates", <<>>), "name",
                                              args.template.s) # 0
                         IN  \E import_ok \in (IF found THEN BOOLEAN ELSE {TRUE}) :
                             \E encode_ok \in (IF found /\ import_ok THEN BOOLEAN ELSE {TRUE}) :
                                 LET r == generate_marketing_video(args.template.s, output.s,
                                              state, today, import_ok, encode_ok) IN
                                 /\ state' = r.state
                                 /\ disk' = IF r.saved THEN save_state(r.state) ELSE disk
                                 /\ saves' = IF r.saved
                                              THEN Append(saves, "generate_marketing_video")
                                              ELSE saves
                                 /\ console' = console \o r.lines
                                 /\ exit_msg' = r.msg
                                 /\ prev' = [Command("video", TRUE, r.ok, state) EXCEPT
                                                !.import_ok = import_ok, !.encode_ok = encode_ok]
                                 /\ pc' = IF r.ok THEN "generated" ELSE "failed"
    /\ UNCHANGED <<disk0, today, runs>>
    /\ UNCHANGED <<plan_vars, race_vars, view_vars, store_vars>>

\* main, lines 1352-1384: the views read the state and return
Finish ==
    /\ pc = "generated"
    /\ pc' = "done"
    /\ UNCHANGED <<disk, state, args, exit_msg, console, saves, disk0, prev, today, runs>>
    /\ UNCHANGED <<plan_vars, race_vars, view_vars, store_vars>>

MainNext ==
    \/ Start
    \/ ValidateNextSend
    \/ ResetSample
    \/ AddCampaign
    \/ SelectStrategy
    \/ GenerateVideo
    \/ Finish

----------------------------------------------------------------------------
(* Two invocations of `--add-campaign` running at the same time on the     *)
(* same data/state.json.  save_state opens the file with mode "w", which   *)
(* empties it, and the JSON text reaches the file afterwards in one or two *)
(* write system calls, each at the writer's own file position; nothing     *)
(* locks the file.  Every byte of the file is therefore the byte that some *)
(* text has at the same offset, and the file is a row of pieces of texts.  *)

Procs == {1, 2}

\* the options of invocation p: a complete --add-campaign
RaceArgs(p) ==
    [ArgDefaults EXCEPT !.add_campaign = TRUE,
                        !.name = JStr(IF p = 1 THEN "Flash" ELSE "Flash Sale"),
                        !.segment = JStr("New Leads"),
                        !.trigger = JStr("Manual"),
                        !.channel = JStr("SMS"),
                        !.template = JStr("Welcome Series")]

\* bytes that belong to no text: the zeros the file system puts before a
\* write beyond the end of the file, and the bytes of a file that is not JSON
Zeros == [zeros |-> TRUE]
Garbage == [garbage |-> TRUE]
IsText(text) == text # Zeros /\ text # Garbage

\* the bytes of `text` from the end of the piece before up to offset `upto`
Piece(text, upto) == [text |-> text, upto |-> upto]

FileLength(bytes) == IF bytes = <<>> THEN 0 ELSE bytes[Len(bytes)].upto

\* json.dump(..., indent=2): bytes of the members of one campaign,
\* 6 spaces, "key": "value" and ",\n" after each
RECURSIVE MembersTextLen(_, _)
MembersTextLen(campaign, keys) ==
    IF keys = {} THEN 0
    ELSE LET key == CHOOSE k \in keys : TRUE IN
         14 + Len(key) + Len(campaign[key]) + MembersTextLen(campaign, keys \ {key})

\* bytes of one campaign of the list and of the ",\n" after it: "    {\n",
\* the members (no comma after the last), "\n    }"
CampaignTextLen(campaign) == 12 + MembersTextLen(campaign, DOMAIN campaign)

RECURSIVE CampaignListTextLen(_)
CampaignListTextLen(campaigns) ==
    IF campaigns = <<>> THEN 0
    ELSE CampaignTextLen(Head(campaigns)) + CampaignListTextLen(Tail(campaigns))

\* bytes of `  "campaigns": [ ... ]` in the text of a record
CampaignsTextLen(st) ==
    IF "campaigns" \notin DOMAIN st THEN 0
    ELSE IF st["campaigns"] = <<>> THEN 17
    ELSE 19 + CampaignListTextLen(st["campaigns"])

\* the record without one of its keys
Without(st, key) == [k \in DOMAIN st \ {key} |-> st[k]]

\* bytes of the text outside the campaigns: the sample record with all of
\* its collections, the sample record with a second video, and the
\* hand-edited record (and the ",\n" before a campaigns key added to it)
OtherTextLen(st) ==
    IF Without(st, "campaigns") = Without(sample_state(today), "campaigns") THEN 7528
    ELSE IF Without(st, "campaigns") = Without(grown_state(today), "campaigns") THEN 7694
    ELSE IF "campaigns" \in DOMAIN st THEN 992
    ELSE 990

\* len(json.dumps(st, indent=2)): 8268 for sample_state()
TextLen(st) == OtherTextLen(st) + CampaignsTextLen(st)

\* the chunk size of the text layer of the file object: json.dump hands
\* its text over piece by piece; a text that fits goes to the file in one
\* write system call at close, a longer one in a first call when the chunk
\* is full and a second call at close
BufferSize == 8192

\* the text of the record is longer than the chunk
exceeds_buffer(st) == TextLen(st) > BufferSize

\* The first write ends with a piece of json.dump, at or next to BufferSize
\* bytes; where exactly depends on the text and on the version of the io
\* module (the sample text: 8191 bytes in CPython 3.11, 8201 in others).
\* What shows in the file is how the ends for two texts lie to each other;
\* equal texts are cut at the same place.
FirstWriteLens(p) ==
    IF \E q \in Procs \ {p} : roffset[q] > 0 /\ rstate[q] = rstate[p]
    THEN {roffset[q] : q \in {q \in Procs \ {p} : roffset[q] > 0 /\ rstate[q] = rstate[p]}}
    ELSE {BufferSize - 1, BufferSize, BufferSize + 1}

\* neighbouring pieces of one text are one piece
RECURSIVE Joined(_)
Joined(bytes) ==
    IF Len(bytes) <= 1 THEN bytes
    ELSE IF bytes[1].text = bytes[2].text THEN Joined(Tail(bytes))
    ELSE <<bytes[1]>> \o Joined(Tail(bytes))

\* offset at which piece i begins
StartOf(bytes, i) == IF i = 1 THEN 0 ELSE bytes[i - 1].upto

\* write(2) of the bytes lo..hi-1 of `text` at offset lo: what lies before
\* lo stays (zeros fill a gap), what lies at hi or after stays
Written(bytes, text, lo, hi) ==
    LET before == Cardinality({i \in 1..Len(bytes) : StartOf(bytes, i) < lo})
        after == Cardinality({i \in 1..Len(bytes) : bytes[i].upto > hi})
    IN  Joined([i \in 1..before |->
                    Piece(bytes[i].text, IF bytes[i].upto < lo THEN bytes[i].upto ELSE lo)]
               \o (IF FileLength(bytes) < lo THEN <<Piece(Zeros, lo)>> ELSE <<>>)
               \o <<Piece(text, hi)>>
               \o SubSeq(bytes, Len(bytes) - after + 1, Len(bytes)))

\* The first write of a long text ends in automation_rules, the last
\* collection of the record.  A file that goes on from there with bytes of
\* another text can be a JSON text all the same.  This is the record it
\* spells when bytes of the first text are missing in between: the first
\* rule with the members of the last one, and no other rule.
spliced_record(st) ==
    LET rules == st["automation_rules"] IN
    [st EXCEPT !["automation_rules"] =
        <<"S","M","B","_","C","T","O">> :> rules[<<"D","e","m","o","_","v","i","d","e","o">>]]

\* what load_state finds in a file that exists and has these bytes.  One
\* whole text is the record.  The beginning of a long text followed by
\* bytes of another text parses or not, which depends on where the first
\* write ended: if the file is as long as the first text or longer, bytes
\* come twice and a JSON text has keys that come twice, which gives the
\* record of the first text; if it is shorter, bytes are missing.  An
\* empty file, a part of a text, a text followed by more bytes, and bytes
\* that belong to no text do not parse.
file_content(bytes) ==
    IF Len(bytes) = 1 /\ IsText(bytes[1].text) /\ bytes[1].upto = TextLen(bytes[1].text)
    THEN {json_dump(bytes[1].text)}
    ELSE IF /\ Len(bytes) >= 2
            /\ \A i \in 1..Len(bytes) : IsText(bytes[i].text)
            /\ bytes[1].upto < TextLen(bytes[1].text)
    THEN IF FileLength(bytes) >= TextLen(bytes[1].text)
         THEN {Corrupt, json_dump(bytes[1].text)}
         ELSE {Corrupt, json_dump(spliced_record(bytes[1].text))}
    ELSE {Corrupt}

\* the bytes of the state files an invocation can find
InitialBytes(file) ==
    IF file.kind = "json" THEN <<Piece(file.data, TextLen(file.data))>>
    ELSE IF file.kind = "corrupt" THEN <<Piece(Garbage, 1)>>
    ELSE <<>>

\* save_state, line 298: open("w") leaves an empty file, which is no JSON text
save_state_open == Corrupt

\* save_state, line 299, for a text longer than the chunk: the bytes of the
\* file after the first write system call, which puts len bytes at offset 0
save_state_flush(bytes, st, len) == Written(bytes, st, 0, len)

\* save_state, line 299: the bytes of the file after the write system call
\* at close, which puts the text from offset `from` on
save_state_write(bytes, st, from) == Written(bytes, st, from, TextLen(st))

Event(p, ev) == [p |-> p, ev |-> ev]

RaceIdle ==
    /\ rfile = Absent
    /\ rbytes = <<>>
    /\ rpc = <<>>
    /\ rstate = <<>>
    /\ rorder = <<>>
    /\ roffset = <<>>

RaceInit ==
    /\ rfile \in InitialFiles(today)
    /\ rbytes = InitialBytes(rfile)
    /\ rpc = [p \in Procs |-> "start"]
    /\ rstate = [p \in Procs |-> EmptyDict]
    /\ rorder = <<>>
    /\ roffset = [p \in Procs |-> 0]

\* load_state of invocation p on a file that holds JSON
RaceLoad(p) ==
    /\ rpc[p] = "start"
    /\ rfile.kind = "json"
    /\ rstate' = [rstate EXCEPT ![p] = json_load(rfile)]
    /\ rpc' = [rpc EXCEPT ![p] = "loaded"]
    /\ rorder' = Append(rorder, Event(p, "load"))
    /\ UNCHANGED <<rfile, rbytes, roffset>>
    /\ UNCHANGED <<plan_vars, main_vars, view_vars, store_vars>>

\* load_state of invocation p, lines 287-293, on a missing or unparseable
\* file: exists() is False or json.load raises, and reset_state is called next
RaceLoadFails(p) ==
    /\ rpc[p] = "start"
    /\ rfile.kind # "json"
    /\ rpc' = [rpc EXCEPT ![p] = "load_failed"]
    /\ rorder' = Append(rorder, Event(p, "load_failed"))
    /\ UNCHANGED <<rfile, rbytes, rstate, roffset>>
    /\ UNCHANGED <<plan_vars, main_vars, view_vars, store_vars>>

\* reset_state of invocation p after the failed load: it builds the sample
\* record and its save_state opens the file, whatever the file holds by now
RaceLoadReset(p) ==
    /\ rpc[p] = "load_failed"
    /\ rstate' = [rstate EXCEPT ![p] = reset_state(today)]
    /\ rbytes' = <<>>
    /\ rfile' = save_state_open
    /\ roffset' = [roffset EXCEPT ![p] = 0]
    /\ rpc' = [rpc EXCEPT ![p] = "resetting"]
    /\ rorder' = Append(rorder, Event(p, "reset"))
    /\ UNCHANGED <<plan_vars, main_vars, view_vars, store_vars>>

\* the save_state of reset_state: the chunk is full and its bytes go to the file
RaceResetFlush(p) ==
    /\ rpc[p] = "resetting"
    /\ exceeds_buffer(rstate[p])
    /\ \E len \in FirstWriteLens(p) :
          /\ rbytes' = save_state_flush(rbytes, rstate[p], len)
          /\ roffset' = [roffset EXCEPT ![p] = len]
    /\ rfile' \in file_content(rbytes')
    /\ rpc' = [rpc EXCEPT ![p] = "reset_flushed"]
    /\ rorder' = Append(rorder, Event(p, "reset_flush"))
    /\ UNCHANGED rstate
    /\ UNCHANGED <<plan_vars, main_vars, view_vars, store_vars>>

\* the save_state of reset_state writes the rest of the sample record and
\* closes the file
RaceResetWrite(p) ==
    /\ \/ rpc[p] = "reset_flushed"
       \/ rpc[p] = "resetting" /\ ~exceeds_buffer(rstate[p])
    /\ rbytes' = save_state_write(rbytes, rstate[p], roffset[p])
    /\ rfile' \in file_content(rbytes')
    /\ rpc' = [rpc EXCEPT ![p] = "loaded"]
    /\ rorder' = Append(rorder, Event(p, "reset_write"))
    /\ UNCHANGED <<rstate, roffset>>
    /\ UNCHANGED <<plan_vars, main_vars, view_vars, store_vars>>

\* add_campaign of invocation p appends in memory and its save_state opens the file
RaceAddOpen(p) ==
    /\ rpc[p] = "loaded"
    /\ rstate' = [rstate EXCEPT ![p] = add_campaign(RaceArgs(p), rstate[p], today).state]
    /\ rbytes' = <<>>
    /\ rfile' = save_state_open
    /\ roffset' = [roffset EXCEPT ![p] = 0]
    /\ rpc' = [rpc EXCEPT ![p] = "opened"]
    /\ rorder' = Append(rorder, Event(p, "open"))
    /\ UNCHANGED <<plan_vars, main_vars, view_vars, store_vars>>

\* the save_state of add_campaign, for a text longer than the chunk: the
\* chunk is full and its bytes go to the file
RaceFlush(p) ==
    /\ rpc[p] = "opened"
    /\ exceeds_buffer(rstate[p])
    /\ \E len \in FirstWriteLens(p) :
          /\ rbytes' = save_state_flush(rbytes, rstate[p], len)
          /\ roffset' = [roffset EXCEPT ![p] = len]
    /\ rfile' \in file_content(rbytes')
    /\ rpc' = [rpc EXCEPT ![p] = "flushed"]
    /\ rorder' = Append(rorder, Event(p, "flush"))
    /\ UNCHANGED rstate
    /\ UNCHANGED <<plan_vars, main_vars, view_vars, store_vars>>

\* the save_state of add_campaign writes the text, or the rest of it, and
\* closes the file
RaceWrite(p) ==
    /\ \/ rpc[p] = "flushed"
       \/ rpc[p] = "opened" /\ ~exceeds_buffer(rstate[p])
    /\ rbytes' = save_state_write(rbytes, rstate[p], roffset[p])
    /\ rfile' \in file_content(rbytes')
    /\ rpc' = [rpc EXCEPT ![p] = "done"]
    /\ rorder' = Append(rorder, Event(p, "write"))
    /\ UNCHANGED <<rstate, roffset>>
    /\ UNCHANGED <<plan_vars, main_vars, view_vars, store_vars>>

RaceNext ==
    \/ \E p \in Procs : RaceLoad(p)
    \/ \E p \in Procs : RaceLoadFails(p)
    \/ \E p \in Procs : RaceLoadReset(p)
    \/ \E p \in Procs : RaceResetFlush(p)
    \/ \E p \in Procs : RaceResetWrite(p)
    \/ \E p \in Procs : RaceAddOpen(p)
    \/ \E p \in Procs : RaceFlush(p)
    \/ \E p \in Procs : RaceWrite(p)

----------------------------------------------------------------------------
(* The views: functions that read the state record and build tables,       *)
(* panels and console lines.  A status and a date are texts the views      *)
(* inspect, so the records given to the views hold them as sequences of    *)
(* characters.  Rates (open_rate, click_rate, reply_rate, uplift) are      *)
(* multiples of 0.001 and the model holds the number of thousandths.       *)
(* Characters outside ASCII are written with the stand-ins below.          *)

EmDash == "--"              \* U+2014, the placeholder of an empty cell
Bullet == "*"               \* U+2022
Sparkle == "+"              \* U+2726
RedDot == "(red)"           \* U+1F534
YellowDot == "(yellow)"     \* U+1F7E1
Envelope == "(mail)"        \* U+1F4E7
Pointer == "(click)"        \* U+1F446
Target == "(target)"        \* U+1F3AF

\* None in a place where the views expect a text
PyNone == <<"None">>

\* the text as one string, as an f-string prints it (None prints as "None")
RECURSIVE Chars2Str(_)
Chars2Str(s) == IF s = <<>> THEN "" ELSE Head(s) \o Chars2Str(Tail(s))

\* str.upper() on one character
UpperTable ==
    [c \in DOMAIN OrdTable |->
        IF OrdTable[c] >= 97 /\ OrdTable[c] <= 122 THEN AsciiChars[OrdTable[c] - 31 - 32]
        ELSE c]

UpperChar(c) == UpperTable[c]

IsCased(c) == LowerTable[c] # c \/ UpperTable[c] # c

\* str.title(): a cased character is upper-cased after an uncased one (or at
\* the start) and lower-cased after a cased one
title(s) ==
    [i \in 1..Len(s) |->
        IF i > 1 /\ IsCased(s[i - 1]) THEN LowerChar(s[i]) ELSE UpperChar(s[i])]

\* the mapping of _status_color
status_mapping ==
    (<<"r", "u", "n", "n", "i", "n", "g">> :> "green")
    @@ (<<"s", "c", "h", "e", "d", "u", "l", "e", "d">> :> "cyan")
    @@ (<<"r", "e", "a", "d", "y">> :> "yellow")
    @@ (<<"p", "a", "u", "s", "e", "d">> :> "red")
    @@ (<<"c", "o", "n", "n", "e", "c", "t", "e", "d">> :> "green")
    @@ (<<"h", "e", "a", "l", "t", "h", "y">> :> "green")
    @@ (<<"d", "e", "g", "r", "a", "d", "e", "d">> :> "yellow")
    @@ (<<"m", "a", "i", "n", "t", "e", "n", "a", "n", "c", "e">> :> "magenta")
    @@ (<<"p", "e", "n", "d", "i", "n", "g">> :> "yellow")
    @@ (<<"o", "f", "f", "l", "i", "n", "e">> :> "red")
    @@ (<<"f", "a", "i", "l", "e", "d">> :> "red")

\* a variant of _status_color that looks the status up as it is written
_status_color_case_sensitive(status) == Get(status_mapping, status, "white")

\* _status_color(status)
_status_color(status) == Get(status_mapping, Lower(status), "white")

\* Text(status.title(), style=_status_color(status))
StatusCell(status) == [text |-> title(status), style |-> _status_color(status)]

\* round(n / d) to the nearest integer, ties to the even one (n >= 0, d > 0):
\* what the format specifications .0f and .1f do
RoundHalfEven(n, d) ==
    LET q == n \div d
        r == n % d
    IN  IF 2 * r > d THEN q + 1
        ELSE IF 2 * r < d THEN q
        ELSE IF q % 2 = 0 THEN q ELSE q + 1

\* format_pct(value): f"{value * 100:.1f}%", value given in thousandths
format_pct(value) ==
    (IF value < 0 THEN "-" ELSE "")
    \o NatToStr((IF value < 0 THEN 0 - value ELSE value) \div 10) \o "."
    \o Digit((IF value < 0 THEN 0 - value ELSE value) % 10) \o "%"

\* f"{((rate - benchmark) / benchmark) * 100:+.0f}" for benchmark > 0: the
\* sign and the quotient rounded to the nearest integer.  Where the exact
\* quotient lies halfway between two integers the code's result depends on
\* the rounding of the binary floating point division; the rates and
\* benchmarks of this model have no such quotient.
format_diff(rate, benchmark) ==
    IF rate < benchmark
    THEN "-" \o NatToStr(RoundHalfEven(100 * (benchmark - rate), benchmark))
    ELSE "+" \o NatToStr(RoundHalfEven(100 * (rate - benchmark), benchmark))

\* what a view returns, and the state record as the call leaves it
Built(out, st) == [out |-> out, state |-> st]

\* a view that raises instead of returning: the exception, and the state
\* record as the call leaves it
BuildRaised(exception, st) == [out |-> [raised |-> exception], state |-> st]
IsRaised(result) == "raised" \in DOMAIN result.out

(* ---- Today's Focus ---- *)

DateMax == Date(9999, 12, 31)

\* a < b for two dates
DateBefore(a, b) ==
    \/ a.y < b.y
    \/ (a.y = b.y /\ a.m < b.m)
    \/ (a.y = b.y /\ a.m = b.m /\ a.d < b.d)

\* parse_date of build_actions_panel: NoDate stands for its None, returned
\* on ValueError (text that does not parse) and TypeError (None)
parse_date(date_str) == IF date_str = PyNone THEN NoDate ELSE strptime(date_str)

\* the sort key: parse_date(x.get('due', '')) or date.max
due_key(item) ==
    LET parsed == parse_date(Get(item, "due", <<>>)) IN
    IF parsed = NoDate THEN DateMax ELSE parsed

\* sorted(actions, key=...) is stable: an item goes behind the items whose
\* key is not greater than its own
RECURSIVE InsertByDue(_, _)
InsertByDue(item, sortedSeq) ==
    IF sortedSeq = <<>> THEN <<item>>
    ELSE IF DateBefore(due_key(item), due_key(Head(sortedSeq))) THEN <<item>> \o sortedSeq
    ELSE <<Head(sortedSeq)>> \o InsertByDue(item, Tail(sortedSeq))

RECURSIVE sorted_actions(_)
sorted_actions(actions) ==
    IF actions = <<>> THEN <<>>
    ELSE InsertByDue(actions[Len(actions)], sorted_actions(SubSeq(actions, 1, Len(actions) - 1)))

\* one line of the panel: Text(f"{priority}* {title} (due {due_str})", style=color)
action_line(item, now) ==
    LET due_str == Get(item, "due", <<EmDash>>)
        due_date == parse_date(due_str)
        priority == IF due_date = now THEN RedDot \o " "
                    ELSE IF due_date = NextDay(now) THEN YellowDot \o " "
                    ELSE ""
        color == IF due_date = now THEN "red"
                 ELSE IF due_date = NextDay(now) THEN "yellow"
                 ELSE "white"
    IN  [text |-> priority \o Bullet \o " " \o Get(item, "title", "Untitled")
                    \o " (due " \o Chars2Str(due_str) \o ")",
         style |-> color]

\* a variant of build_actions_panel that sorts the stored list itself
build_actions_panel_sort_in_place(st, now) ==
    LET actions == Get(st, "actions", <<>>) IN
    IF actions = <<>> THEN
        Built([title |-> "Today's Focus", body |-> "You're all set for today."], st)
    ELSE
        Built([title |-> "Today's Focus",
               body |-> [i \in 1..Len(actions) |-> action_line(sorted_actions(actions)[i], now)]],
              [st EXCEPT !["actions"] = sorted_actions(actions)])

build_actions_panel(st, now) ==
    LET actions == Get(st, "actions", <<>>) IN
    IF actions = <<>> THEN
        Built([title |-> "Today's Focus", body |-> "You're all set for today."], st)
    ELSE
        LET sorted == sorted_actions(actions) IN
        Built([title |-> "Today's Focus",
               body |-> [i \in 1..Len(sorted) |-> action_line(sorted[i], now)]],
              st)

(* ---- the brief ---- *)

MonthNames ==
    <<"January", "February", "March", "April", "May", "June", "July", "August",
      "September", "October", "November", "December">>

MonthAbbr ==
    <<"Jan", "Feb", "Mar", "Apr", "May", "Jun", "Jul", "Aug", "Sep", "Oct", "Nov", "Dec">>

\* strftime("%d"): the day, zero padded
DayOfMonth(dt) == Digit(dt.d \div 10) \o Digit(dt.d % 10)

\* now.strftime('%B %d, %Y %H:%M'); the model has no time of day and writes HH:MM
strftime_long(now) ==
    MonthNames[now.m] \o " " \o DayOfMonth(now) \o ", " \o NatToStr(now.y) \o " HH:MM"

\* now.strftime(DATETIME_HEADER_FMT), "%b %d, %Y %H:%M"
strftime_header(now) ==
    MonthAbbr[now.m] \o " " \o DayOfMonth(now) \o ", " \o NatToStr(now.y) \o " HH:MM"

\* the console line of one of the first three stored actions
brief_action_line(item, now) ==
    LET due_str == Get(item, "due", <<EmDash>>)
        due_date == parse_date(due_str)
    IN  IF due_date = now THEN "  " \o RedDot \o " " \o Get(item, "title", "Untitled")
        ELSE "  " \o Bullet \o " " \o Get(item, "title", "Untitled")

\* the console line of a rate in the brief: the comparison is printed
\* whenever the benchmark is positive
brief_rate_line(icon, label, rate, benchmark) ==
    IF benchmark > 0
    THEN "  " \o icon \o " " \o label \o ": " \o format_pct(rate)
            \o " (" \o format_diff(rate, benchmark) \o "% vs avg)"
    ELSE "  " \o icon \o " " \o label \o ": " \o format_pct(rate)

\* actions[:3]
FirstThree(actions) == SubSeq(actions, 1, IF Len(actions) < 3 THEN Len(actions) ELSE 3)

\* render_brief_mode(state, console): the lines it prints, in three parts
render_brief_mode(st, now) ==
    LET profile == Get(st, "profile", EmptyDict)
        actions == Get(st, "actions", <<>>)
        shown == FirstThree(actions)
        analytics == Get(st, "analytics", EmptyDict)
        benchmarks == Get(st, "benchmarks", EmptyDict)
    IN  Built([header |-> << Sparkle \o " " \o Get(profile, "business_name", "B2B Dashboard")
                                \o " - Morning Brief",
                             strftime_long(now) >>,
               focus |-> IF actions # <<>>
                         THEN [i \in 1..Len(shown) |-> brief_action_line(shown[i], now)]
                         ELSE << "  " \o CheckMark \o " You're all set for today!" >>,
               metrics |-> << brief_rate_line(Envelope, "Open rate",
                                  Get(analytics, "open_rate", 0), Get(benchmarks, "open_rate", 0)),
                              brief_rate_line(Pointer, "Click rate",
                                  Get(analytics, "click_rate", 0), Get(benchmarks, "click_rate", 0)),
                              "  " \o Target \o " Conversions this week: "
                                  \o IntToStr(Get(analytics, "conversions", 0)) >>],
              st)

(* ---- Analytics & A/B Tests ---- *)

\* a variant of rate_line that prints the comparison also when it is zero
rate_line_always_compares(label, rate, benchmark) ==
    IF benchmark > 0
    THEN label \o ": " \o format_pct(rate) \o " (" \o format_diff(rate, benchmark) \o "% vs avg)"
    ELSE label \o ": " \o format_pct(rate)

\* the line of one rate in build_analytics_panel (lines 603-622); the
\* difference is zero exactly when the rate equals the benchmark
rate_line(label, rate, benchmark) ==
    IF benchmark > 0
    THEN label \o ": " \o format_pct(rate)
            \o (IF rate # benchmark
                THEN " (" \o format_diff(rate, benchmark) \o "% vs avg)"
                ELSE "")
    ELSE label \o ": " \o format_pct(rate)

ab_test_line(test) ==
    " " \o Bullet \o " " \o Get(test, "name", EmDash) \o " winner: " \o Get(test, "winner", EmDash)
        \o " (+" \o format_pct(Get(test, "uplift", 0)) \o ")"

build_analytics_panel(st) ==
    LET analytics == Get(st, "analytics", EmptyDict)
        benchmarks == Get(st, "benchmarks", EmptyDict)
        ab_tests == Get(analytics, "ab_tests", <<>>)
    IN  Built([title |-> "Analytics & A/B Tests",
               body |->
                  << rate_line("Open rate", Get(analytics, "open_rate", 0),
                               Get(benchmarks, "open_rate", 0)),
                     rate_line("Click rate", Get(analytics, "click_rate", 0),
                               Get(benchmarks, "click_rate", 0)),
                     rate_line("Reply rate", Get(analytics, "reply_rate", 0),
                               Get(benchmarks, "reply_rate", 0)),
                     "Conversions this week: " \o IntToStr(Get(analytics, "conversions", 0)) >>
                  \o (IF ab_tests # <<>>
                      THEN <<"A/B tests:">> \o [i \in 1..Len(ab_tests) |-> ab_test_line(ab_tests[i])]
                      ELSE <<>>)],
              st)

(* ---- the tables ---- *)

Unknown == <<"u", "n", "k", "n", "o", "w", "n">>
Available == <<"A", "v", "a", "i", "l", "a", "b", "l", "e">>

build_campaign_table(st) ==
    LET campaigns == Get(st, "campaigns", <<>>) IN
    Built([title |-> "Automation",
           rows |-> [i \in 1..Len(campaigns) |->
                      LET campaign == campaigns[i] IN
                      << Get(campaign, "name", EmDash),
                         Get(campaign, "segment", EmDash),
                         Get(campaign, "trigger", EmDash),
                         Get(campaign, "channel", EmDash),
                         Get(campaign, "template", EmDash),
                         Get(campaign, "next_send", <<EmDash>>),
                         StatusCell(Get(campaign, "status", Unknown)) >>]],
          st)

\* "\n".join(f"* {c}" for c in criteria)
RECURSIVE criteria_text(_)
criteria_text(criteria) ==
    IF criteria = <<>> THEN ""
    ELSE IF Len(criteria) = 1 THEN Bullet \o " " \o criteria[1]
    ELSE Bullet \o " " \o criteria[1] \o "\n" \o criteria_text(Tail(criteria))

\* ---- binary floating point (Python float: IEEE 754 double) ----
\* A positive float is a significand of 53 binary digits, most significant
\* first, and the number f of them that follow the binary point:
\* value = significand / 2^f.

SignificandBits == 53

\* the k binary digits of a natural number below 2^k, most significant first
FixedBits(n, k) == [i \in 1..k |-> (n \div 2^(k - i)) % 2]

\* the digits from the first 1 on
StripZeros(bits) ==
    IF \A i \in 1..Len(bits) : bits[i] = 0 THEN <<>>
    ELSE SubSeq(bits,
                CHOOSE i \in 1..Len(bits) : bits[i] = 1 /\ \A j \in 1..(i - 1) : bits[j] = 0,
                Len(bits))

\* the natural number with these binary digits (at most 31 of them)
RECURSIVE BitsNat(_)
BitsNat(bits) ==
    IF bits = <<>> THEN 0
    ELSE 2 * BitsNat(SubSeq(bits, 1, Len(bits) - 1)) + bits[Len(bits)]

\* bits + 1: the last 0 becomes 1 and the 1s after it become 0
IncBits(bits) ==
    IF \A i \in 1..Len(bits) : bits[i] = 1
    THEN <<1>> \o [i \in 1..Len(bits) |-> 0]
    ELSE [i \in 1..Len(bits) |->
            IF \E j \in i..Len(bits) : bits[j] = 0 /\ j > i THEN bits[i]
            ELSE IF bits[i] = 0 THEN 1 ELSE 0]

\* the significand kept, or one more when the rounding goes up
RoundedFloat(bits, f, up) ==
    IF ~up THEN [bits |-> bits, f |-> f]
    ELSE IF Len(IncBits(bits)) > SignificandBits
    THEN [bits |-> SubSeq(IncBits(bits), 1, SignificandBits), f |-> f - 1]
    ELSE [bits |-> IncBits(bits), f |-> f]

\* round to nearest, ties to even: digits (53 or more, the first a 1) with
\* f of them after the binary point, followed by more that are not all 0
\* when inexact, rounded to 53 digits
RoundToNearestEven(digits, f, inexact) ==
    RoundedFloat(SubSeq(digits, 1, SignificandBits),
                 f - (Len(digits) - SignificandBits),
                 /\ Len(digits) > SignificandBits
                 /\ digits[SignificandBits + 1] = 1
                 /\ \/ inexact
                    \/ digits[SignificandBits] = 1
                    \/ \E j \in (SignificandBits + 2)..Len(digits) : digits[j] = 1)

\* the long division r / s for 0 <= r < s < 2^23, eight binary digits at a
\* time: acc followed by the next 8 * k digits of the quotient, and the
\* remainder left
RECURSIVE DivideBits(_, _, _, _)
DivideBits(r, s, k, acc) ==
    IF k = 0 THEN [bits |-> acc, r |-> r]
    ELSE DivideBits((r * 256) % s, s, k - 1, acc \o FixedBits((r * 256) \div s, 8))

\* the number of 8-digit steps that give 53 significant digits and one more
\* after as many as 23 leading zeros
FractionSteps == 10

\* the exact quotient given by long division, rounded
RoundedQuotient(q) ==
    RoundToNearestEven(StripZeros(q.bits), 8 * FractionSteps, q.r > 0)

\* a / b for integers a > 0 and 0 < b < 2^23 (int / int is true division)
float_truediv(a, b) ==
    RoundedQuotient(DivideBits(a % b, b, FractionSteps, FixedBits(a \div b, 31)))

\* the binary digits of bits * c + carry for a natural c below 2^15, sixteen
\* digits at a time from the least significant end
RECURSIVE TimesBits(_, _, _, _)
TimesBits(bits, c, carry, acc) ==
    IF bits = <<>> THEN FixedBits(carry, 15) \o acc
    ELSE IF Len(bits) <= 16
    THEN FixedBits(BitsNat(bits) * c + carry, Len(bits) + 15) \o acc
    ELSE TimesBits(SubSeq(bits, 1, Len(bits) - 16), c,
                   (BitsNat(SubSeq(bits, Len(bits) - 15, Len(bits))) * c + carry) \div 65536,
                   FixedBits((BitsNat(SubSeq(bits, Len(bits) - 15, Len(bits))) * c + carry)
                                 % 65536, 16) \o acc)

\* x * c for a float x > 0 and an integer 0 < c < 2^15: the exact product
\* rounded to 53 significant digits
float_mul(x, c) == RoundToNearestEven(StripZeros(TimesBits(x.bits, c, 0, <<>>)), x.f, FALSE)

\* f"{x:.0f}" for a float x > 0 below 2^31: the nearest integer to the
\* value of x, the even one when x lies halfway
format_0f(x) ==
    LET whole == IF x.f >= SignificandBits THEN 0
                 ELSE BitsNat(SubSeq(x.bits, 1, SignificandBits - x.f))
        half == x.f <= SignificandBits /\ x.bits[SignificandBits - x.f + 1] = 1
        more == \/ x.f > SignificandBits
                \/ \E j \in (SignificandBits - x.f + 2)..SignificandBits : x.bits[j] = 1
    IN  IF half /\ (more \/ whole % 2 = 1) THEN NatToStr(whole + 1) ELSE NatToStr(whole)

\* pct = (nurtured / size) * 100; f"{pct:.0f}" (lines 380-381), size > 0
nurtured_pct(size, nurtured) ==
    IF nurtured = 0 THEN "0"
    ELSE IF nurtured > 0 THEN format_0f(float_mul(float_truediv(nurtured, size), 100))
    ELSE "-" \o format_0f(float_mul(float_truediv(0 - nurtured, size), 100))

\* a variant of progress_text that has no placeholder
progress_text_without_placeholder(size, nurtured) ==
    IF size > 0 THEN nurtured_pct(size, nurtured) \o "% nurtured"
    ELSE "0% nurtured"

\* the Progress cell of build_segment_table (lines 377-382)
progress_text(size, nurtured) ==
    IF size > 0 THEN nurtured_pct(size, nurtured) \o "% nurtured"
    ELSE EmDash

build_segment_table(st) ==
    LET segments == Get(st, "segments", <<>>) IN
    Built([title |-> "Segments",
           rows |-> [i \in 1..Len(segments) |->
                      LET segment == segments[i]
                          size == Get(segment, "size", 0)
                          nurtured == Get(segment, "nurtured", 0)
                      IN  << Get(segment, "name", EmDash),
                             criteria_text(Get(segment, "criteria", <<>>)),
                             IntToStr(size),
                             progress_text(size, nurtured) >>]],
          st)

build_template_table(st) ==
    LET templates == Get(st, "templates", <<>>) IN
    Built([title |-> "Creation Studio",
           rows |-> [i \in 1..Len(templates) |->
                      LET template == templates[i] IN
                      << Get(template, "name", EmDash),
                         Get(template, "medium", EmDash),
                         Get(template, "purpose", EmDash),
                         Get(template, "last_updated", <<EmDash>>) >>]],
          st)

build_strategies_table(st) ==
    LET strategies == Get(st, "strategies", <<>>) IN
    Built([title |-> "Strategies",
           rows |-> [i \in 1..Len(strategies) |->
                      LET strategy == strategies[i] IN
                      << Get(strategy, "full_name", Get(strategy, "name", EmDash)),
                         Get(strategy, "description", EmDash),
                         Join(Get(strategy, "best_for_segments", <<>>)),
                         [text |-> Available, style |-> "green"] >>]],
          st)

build_videos_table(st) ==
    LET videos == Get(st, "videos", <<>>) IN
    Built([title |-> "Videos",
           rows |-> [i \in 1..Len(videos) |->
                      LET video == videos[i] IN
                      << Get(video, "template", EmDash),
                         IF "duration" \in DOMAIN video
                         THEN IntToStr(video["duration"]) \o "s"
                         ELSE EmDash,
                         StatusCell(Get(video, "status", Unknown)),
                         Get(video, "generated", <<EmDash>>),
                         Get(video, "output_path", EmDash) >>]],
          st)

\* JSON null (Python None) stored where a collection is expected.  It is a
\* value of its own and no list of rows: a loop over it raises TypeError.
NullRows == << [null |-> TRUE] >>

\* a variant of active_connectors that falls back whenever connectors is empty
active_connectors_or_legacy(st) ==
    LET connectors == Get(st, "connectors", NullRows) IN
    IF connectors = NullRows \/ connectors = <<>> THEN Get(st, "integrations", <<>>)
    ELSE connectors

\* build_integration_table, lines 493-496: state.get("connectors"), and
\* state.get("integrations", []) when that is None.  The default [] is for
\* a missing key only: "integrations": null gives None again.
active_connectors(st) ==
    LET connectors == Get(st, "connectors", NullRows) IN
    IF connectors = NullRows THEN Get(st, "integrations", <<>>)
    ELSE connectors

\* the row added for one connector, lines 497-504
connector_row(connector) ==
    << Get(connector, "name", EmDash),
       StatusCell(Get(connector, "status", Unknown)),
       Get(connector, "last_sync", <<EmDash>>),
       Get(connector, "detail", EmDash) >>

\* build_integration_table: one row per connector; `for connector in
\* connectors` (line 497) raises TypeError when connectors is None
build_integration_table(st) ==
    LET connectors == active_connectors(st) IN
    IF connectors = NullRows THEN BuildRaised("TypeError", st)
    ELSE Built([title |-> "Connectors",
                rows |-> [i \in 1..Len(connectors) |-> connector_row(connectors[i])]],
               st)

build_backend_table(st) ==
    LET backend == Get(st, "backend", <<>>) IN
    Built([title |-> "Backend Services",
           rows |-> [i \in 1..Len(backend) |->
                      LET service == backend[i] IN
                      << Get(service, "service", EmDash),
                         StatusCell(Get(service, "status", Unknown)),
                         IF "latency_ms" \in DOMAIN service
                         THEN IntToStr(service["latency_ms"]) ELSE EmDash,
                         Get(service, "error_rate", EmDash),
                         Get(service, "version", EmDash) >>]],
          st)

build_database_table(st) ==
    LET databases == Get(st, "databases", <<>>) IN
    Built([title |-> "Databases",
           rows |-> [i \in 1..Len(databases) |->
                      LET db == databases[i] IN
                      << Get(db, "name", EmDash),
                         Get(db, "role", EmDash),
                         StatusCell(Get(db, "status", Unknown)),
                         IF "storage_gb" \in DOMAIN db
                         THEN IntToStr(db["storage_gb"]) ELSE EmDash,
                         IF "connections" \in DOMAIN db
                         THEN IntToStr(db["connections"]) ELSE EmDash >>]],
          st)

build_feedback_table(st) ==
    LET feedback == Get(st, "feedback", <<>>) IN
    Built([title |-> "Feedback & Surveys",
           rows |-> [i \in 1..Len(feedback) |->
                      LET form == feedback[i] IN
                      << Get(form, "name", EmDash),
                         Get(form, "question", EmDash),
                         Get(form, "last_sent", <<"-">>),
                         IF "responses" \in DOMAIN form
                         THEN IntToStr(form["responses"]) ELSE "-" >>]],
          st)

build_quick_actions_menu ==
    "Quick Actions: [1] New Campaign  [2] Export Report  [3] Sync All  [4] Reset Data  "
        \o "[5] View Templates  [6] Export Cards"

(* ---- the dashboard ---- *)

\* rich.layout.Layout(name=..., size=...) after split_column / split_row: a
\* region, its declared size (fixed is FALSE for size=None, the region then
\* shares the space left by its ratio), how it is split and its parts in order
Region(name, fixed, size, splitter, children) ==
    [name |-> name, fixed |-> fixed, size |-> size, ratio |-> 1,
     splitter |-> splitter, children |-> children]

\* Layout(name=...)
Leaf(name) == Region(name, FALSE, 0, "none", <<>>)

\* the body: left | right
body_layout ==
    Region("body", FALSE, 0, "row",
        << Region("left", FALSE, 0, "column", <<Leaf("campaigns"), Leaf("segments")>>),
           Region("right", FALSE, 0, "column",
               << Leaf("templates"), Leaf("videos"),
                  Region("strategies_analytics", FALSE, 0, "row",
                      <<Leaf("strategies"), Leaf("analytics")>>) >>) >>)

\* footer_layout, the unnamed Layout that the footer region is updated with
footer_layout ==
    Region("", FALSE, 0, "column",
        << Region("footer_top", FALSE, 0, "row",
               <<Leaf("connectors"), Leaf("backend"), Leaf("database")>>),
           Region("footer_bottom", FALSE, 0, "row",
               <<Leaf("feedback"), Leaf("actions")>>) >>)

\* the same layout with Layout(name="footer") declared without a size
dashboard_layout_flexible_footer ==
    Region("", FALSE, 0, "column",
        << Region("header", TRUE, 3, "none", <<>>),
           Region("quick_actions", TRUE, 1, "none", <<>>),
           body_layout,
           Region("footer", FALSE, 0, "update", <<footer_layout>>) >>)

\* the Layout render_dashboard builds before it reads the state: header
\* (size=3), quick_actions (size=1), body (ratio=1), footer (size=6, updated
\* with footer_layout)
dashboard_layout ==
    Region("", FALSE, 0, "column",
        << Region("header", TRUE, 3, "none", <<>>),
           Region("quick_actions", TRUE, 1, "none", <<>>),
           body_layout,
           Region("footer", TRUE, 6, "update", <<footer_layout>>) >>)

\* the argument now of render_dashboard when the caller leaves it out
NoTime == [none |-> TRUE]

\* render_dashboard(state, console, now): the layout it prints, region by
\* region, each builder called on the record the one before it left.  The
\* argument now (the clock's day when it is None) dates the header alone;
\* build_actions_panel(state) reads the clock itself (line 659).
render_dashboard(st, now, clock) ==
    LET render_time == IF now = NoTime THEN clock ELSE now
        profile == Get(st, "profile", EmptyDict)
        campaigns == build_campaign_table(st)
        segments == build_segment_table(campaigns.state)
        templates == build_template_table(segments.state)
        videos == build_videos_table(templates.state)
        strategies == build_strategies_table(videos.state)
        analytics == build_analytics_panel(strategies.state)
        connectors == build_integration_table(analytics.state)
        backend == build_backend_table(connectors.state)
        database == build_database_table(backend.state)
        feedback == build_feedback_table(database.state)
        actions == build_actions_panel(feedback.state, clock)
    IN  IF IsRaised(connectors) THEN BuildRaised(connectors.out.raised, connectors.state)
        ELSE
        Built([header |-> [text |-> Sparkle \o " " \o Get(profile, "business_name", "B2B Dashboard")
                                      \o " " \o Bullet \o " B2B Engagement Command Center",
                           subtitle |-> Get(profile, "owner", "Owner") \o " " \o Bullet
                                          \o " Updated " \o strftime_header(render_time)],
               quick_actions |-> build_quick_actions_menu,
               body |-> [left |-> [campaigns |-> campaigns.out, segments |-> segments.out],
                         right |-> [templates |-> templates.out,
                                    videos |-> videos.out,
                                    strategies_analytics |->
                                        [strategies |-> strategies.out,
                                         analytics |-> analytics.out]]],
               footer |-> [footer_top |-> [connectors |-> connectors.out,
                                           backend |-> backend.out,
                                           database |-> database.out],
                           footer_bottom |-> [feedback |-> feedback.out,
                                              actions |-> actions.out]],
               layout |-> dashboard_layout],
              actions.state)

----------------------------------------------------------------------------
(* The records the views are given.  Each family varies the part of the    *)
(* record that one view reads; full_record has every collection.           *)

\* an item of a collection without the key
NoKey == <<"no key">>

\* the due texts of an action: today, tomorrow, a date written without zero
\* padding (strptime accepts it), text that is no date, the last day
\* datetime.date can hold, None, and no due key
DueArgs(now) ==
    { isoformat(now), isoformat(NextDay(now)), <<"2", "0", "2", "6", "-", "1", "-", "5">>,
      <<"s", "o", "o", "n">>, isoformat(DateMax), PyNone, NoKey }

ActionTitles == <<"Call", "Mail", "Sync", "Plan", "Ship", "Test">>

\* the action at position i of the stored list, with the given due
ActionItem(i, due) ==
    IF due = NoKey THEN [title |-> ActionTitles[i]]
    ELSE [title |-> ActionTitles[i], due |-> due]

\* the dues most action lists hold: today, tomorrow, text that is no date,
\* and no due key
PlainDueArgs(now) ==
    { isoformat(now), isoformat(NextDay(now)), <<"s", "o", "o", "n">>, NoKey }

ListsOver(dueArgs, maxLen) ==
    UNION { { [i \in 1..n |-> ActionItem(i, dues[i])] : dues \in [1..n -> dueArgs] }
            : n \in 0..maxLen }

ActionLists(now) ==
    ListsOver(PlainDueArgs(now), MaxActions) \cup ListsOver(DueArgs(now), MaxMixed)

ActionRecords(now) ==
    { [profile |-> [business_name |-> "Solo"], actions |-> a] : a \in ActionLists(now) }
    \cup { [profile |-> [owner |-> "You"]] }

\* sizes and nurtured counts of a segment, or no such key (-1); 115 of 200
\* is a quotient that binary floating point carries below the half (57.5)
SizeArgs == {-1, 0, 1, 3, 8, 200}
NurturedArgs == {-1, 0, 1, 3, 5, 115}

SegmentItem(size, nurtured) ==
    LET named == [name |-> "Trials", criteria |-> <<"Signed up", "No card">>]
        sized == IF size = -1 THEN named ELSE named @@ [size |-> size]
    IN  IF nurtured = -1 THEN sized ELSE sized @@ [nurtured |-> nurtured]

SegmentRecords ==
    { [segments |-> << [name |-> "New Leads", size |-> 34, nurtured |-> 23],
                       SegmentItem(size, nurtured) >>]
        : size \in SizeArgs, nurtured \in NurturedArgs }

\* rows of the connector collections
ConnectorRows ==
    { <<>>,
      << [name |-> "HubSpot contacts", status |-> <<"c", "o", "n", "n", "e", "c", "t", "e", "d">>, last_sync |-> <<EmDash>>,
          detail |-> "Contacts + deals"] >> }
LegacyRows ==
    { <<>>,
      << [name |-> "CRM (HubSpot)", status |-> <<"c", "o", "n", "n", "e", "c", "t", "e", "d">>, detail |-> "API token valid"],
         [name |-> "Social (LinkedIn)", status |-> <<"p", "e", "n", "d", "i", "n", "g">>, detail |-> "OAuth to finish"] >> }

\* the connector collections of a record: each key with rows, empty, not
\* stored, or stored as null
ConnectorRecords ==
    { [connectors |-> c, integrations |-> l] :
          c \in ConnectorRows \cup {NullRows}, l \in LegacyRows \cup {NullRows} }
    \cup { [connectors |-> c] : c \in ConnectorRows \cup {NullRows} }
    \cup { [integrations |-> l] : l \in LegacyRows \cup {NullRows} }
    \cup { EmptyDict }

\* status texts, as stored
StatusArgsOfViews ==
    { <<"r", "u", "n", "n", "i", "n", "g">>,
      <<"R", "U", "N", "N", "I", "N", "G">>,
      <<"R", "u", "n", "n", "i", "n", "g">>,
      <<"p", "A", "u", "S", "e", "D">>,
      <<"S", "c", "h", "e", "d", "u", "l", "e", "d">>,
      <<"b", "o", "g", "u", "s">>,
      <<"u", "n", "k", "n", "o", "w", "n">>,
      <<"r", "e", "a", "d", "y", " ">>,
      <<>>,
      <<"O", "f", "f", "l", "i", "n", "e">>,
      <<"i", "n", "-", "p", "r", "o", "g", "r", "e", "s", "s">>, NoKey }

WithStatus(item, status) == IF status = NoKey THEN item ELSE item @@ [status |-> status]

StatusRecords ==
    { [campaigns |-> << WithStatus([name |-> "Promo", segment |-> "New Leads"], status) >>,
       videos |-> << WithStatus([template |-> "Demo Recap", duration |-> 10,
                                 output_path |-> "out/promo.mp4"], status) >>,
       connectors |-> << WithStatus([name |-> "SendGrid events"], status) >>,
       backend |-> << WithStatus([service |-> "Engagement API", latency_ms |-> 180], status) >>,
       databases |-> << WithStatus([name |-> "Postgres", connections |-> 58], status) >>]
        : status \in StatusArgsOfViews }

\* rates and benchmarks in thousandths; -1 stands for no such key
RateArgs == {230, 250, 251, 460}
BenchmarkArgs == {-1, 0, -250, 250}

RateRecord(rates) ==
    [open_rate |-> rates[1], click_rate |-> rates[2], reply_rate |-> rates[3], conversions |-> 5]

BenchmarkRecord(marks) ==
    LET keys == <<"open_rate", "click_rate", "reply_rate">> IN
    [k \in {keys[i] : i \in {j \in 1..3 : marks[j] # -1}} |->
        marks[CHOOSE i \in 1..3 : keys[i] = k]]

AnalyticsRecords ==
    { [analytics |-> RateRecord(rates), benchmarks |-> BenchmarkRecord(marks)]
        : rates \in [1..3 -> RateArgs], marks \in [1..3 -> BenchmarkArgs] }
    \cup { [analytics |-> [conversions |-> 2,
                           ab_tests |-> << [name |-> "CTA copy", winner |-> "Book a call",
                                            uplift |-> 120],
                                           [name |-> "Send time"] >>]],
           [benchmarks |-> [open_rate |-> 280]] }

\* a record with every collection the views read
full_record(now) ==
    [profile |-> [business_name |-> "Acme Components", owner |-> "You"],
     segments |-> << [name |-> "New Leads", criteria |-> <<"Created < 30 days">>,
                      size |-> 34, nurtured |-> 23],
                     [name |-> "Dormant Accounts", size |-> 0] >>,
     campaigns |-> << [name |-> "Onboarding Drip", segment |-> "New Leads",
                       trigger |-> "Sign-up form", channel |-> "Email",
                       template |-> "Welcome Series", status |-> <<"s", "c", "h", "e", "d", "u", "l", "e", "d">>,
                       next_send |-> isoformat(NextDay(now))] >>,
     templates |-> << [name |-> "Welcome Series", medium |-> "Email", purpose |-> "Onboarding",
                       last_updated |-> today_iso(now)],
                      [name |-> "Demo Recap"] >>,
     strategies |-> << [name |-> "ABM", full_name |-> "Account-Based Marketing",
                        description |-> "Target high-value accounts",
                        best_for_segments |-> <<"New Leads", "Active Customers">>],
                       [name |-> "7Ps"] >>,
     videos |-> << [template |-> "Product Tour Deck",
                    output_path |-> "data/videos/product_tour.mp4", duration |-> 45,
                    status |-> <<"r", "e", "a", "d", "y">>, generated |-> <<"2", "0", "2", "5", "-", "1", "2", "-", "2", "0">>] >>,
     integrations |-> << [name |-> "CRM (HubSpot)", status |-> <<"c", "o", "n", "n", "e", "c", "t", "e", "d">>,
                          detail |-> "API token valid"] >>,
     connectors |-> << [name |-> "HubSpot contacts", status |-> <<"c", "o", "n", "n", "e", "c", "t", "e", "d">>,
                        last_sync |-> today_iso(now), detail |-> "Contacts + deals"],
                       [name |-> "LinkedIn Ads", status |-> <<"p", "e", "n", "d", "i", "n", "g">>,
                        last_sync |-> <<EmDash>>, detail |-> "Finish OAuth to pull audiences"] >>,
     backend |-> << [service |-> "Automation Worker", status |-> <<"d", "e", "g", "r", "a", "d", "e", "d">>, latency_ms |-> 420,
                     error_rate |-> "1.1%", version |-> "v1.3.9"] >>,
     databases |-> << [name |-> "Redis", role |-> "Cache", status |-> <<"h", "e", "a", "l", "t", "h", "y">>,
                       storage_gb |-> 1, connections |-> 14] >>,
     analytics |-> [open_rate |-> 460, click_rate |-> 230, reply_rate |-> 140,
                    conversions |-> 5,
                    ab_tests |-> << [name |-> "CTA copy", winner |-> "Book a call",
                                     uplift |-> 120] >>],
     benchmarks |-> [open_rate |-> 280, click_rate |-> 150, reply_rate |-> 100],
     feedback |-> << [name |-> "Post-demo pulse", question |-> "How clear was the value prop?",
                      last_sent |-> today_iso(now), responses |-> 12],
                     [name |-> "Onboarding check-in"] >>,
     actions |-> << [title |-> "Send nurture to Dormant Accounts",
                     due |-> isoformat(NextDay(now)), owner |-> "You"],
                    [title |-> "A/B test CTA for New Leads", due |-> today_iso(now),
                     owner |-> "You"] >>]

ViewRecords(now) ==
    ActionRecords(now) \cup SegmentRecords \cup ConnectorRecords \cup StatusRecords
        \cup AnalyticsRecords \cup {full_record(now), EmptyDict}

----------------------------------------------------------------------------
(* Specification of the views: a caller holds a state record and calls the *)
(* views on it, any number of times in any order.                          *)

NoView == [builder |-> "none", out |-> <<>>]

\* the last call raised: the view that was called and the exception
RaisedView(builder, exception) ==
    [builder |-> "raised", out |-> [call |-> builder, exception |-> exception]]

ViewIdle ==
    /\ vstate = EmptyDict
    /\ vstate0 = EmptyDict
    /\ view = NoView

ViewInit ==
    /\ vstate \in ViewRecords(today)
    /\ vstate0 = vstate
    /\ view = NoView

\* the call of a view: what it returned, or that it raised, and the record
\* as it left it
Called(builder, result) ==
    /\ view' = IF IsRaised(result) THEN RaisedView(builder, result.out.raised)
                ELSE [builder |-> builder, out |-> result.out]
    /\ vstate' = result.state
    /\ UNCHANGED vstate0
    /\ UNCHANGED <<plan_vars, main_vars, race_vars, store_vars>>

\* the argument now of a caller of render_dashboard: left out, or a time of
\* another day than the clock shows
RenderTimes == {NoTime, Date(2024, 2, 28)}

BuildCampaignTable == Called("build_campaign_table", build_campaign_table(vstate))
BuildSegmentTable == Called("build_segment_table", build_segment_table(vstate))
BuildTemplateTable == Called("build_template_table", build_template_table(vstate))
BuildStrategiesTable == Called("build_strategies_table", build_strategies_table(vstate))
BuildVideosTable == Called("build_videos_table", build_videos_table(vstate))
BuildIntegrationTable == Called("build_integration_table", build_integration_table(vstate))
BuildBackendTable == Called("build_backend_table", build_backend_table(vstate))
BuildDatabaseTable == Called("build_database_table", build_database_table(vstate))
BuildFeedbackTable == Called("build_feedback_table", build_feedback_table(vstate))
BuildAnalyticsPanel == Called("build_analytics_panel", build_analytics_panel(vstate))
BuildActionsPanel == Called("build_actions_panel", build_actions_panel(vstate, today))
RenderBriefMode == Called("render_brief_mode", render_brief_mode(vstate, today))
RenderDashboard ==
    \E now \in RenderTimes : Called("render_dashboard", render_dashboard(vstate, now, today))

ViewNext ==
    \/ BuildCampaignTable
    \/ BuildSegmentTable
    \/ BuildTemplateTable
    \/ BuildStrategiesTable
    \/ BuildVideosTable
    \/ BuildIntegrationTable
    \/ BuildBackendTable
    \/ BuildDatabaseTable
    \/ BuildFeedbackTable
    \/ BuildAnalyticsPanel
    \/ BuildActionsPanel
    \/ RenderBriefMode
    \/ RenderDashboard

----------------------------------------------------------------------------
(* The views of main: after the commands, one invocation shows one view.   *)

\* the prompt's default answer, "Demo campaign", and the fixture phrase
PromptAnswers ==
    { Idea(<<"D","e","m","o"," ","c","a","m","p","a","i","g","n">>), Idea(FixturePhrase) }

\* creative_mode asks for the idea; the other views ask nothing
Asked(brief, export_cards, cm) ==
    IF ~brief /\ ~export_cards /\ cm THEN PromptAnswers ELSE {NoIdea}

\* a variant of should_render_dashboard without its first test: --summary
\* and --snapshot do not bring the dashboard back after a command
should_render_dashboard_without_summary(a) ==
    IF a.brief \/ a.export_cards THEN FALSE
    ELSE ~(a.add_campaign \/ a.reset_sample \/ Truthy(a.select_strategy) \/ a.generate_video)

should_render_dashboard(a) ==
    IF a.summary \/ a.snapshot THEN TRUE
    ELSE IF a.brief \/ a.export_cards THEN FALSE
    ELSE ~(a.add_campaign \/ a.reset_sample \/ Truthy(a.select_strategy) \/ a.generate_video)

\* a view called by main: the record and the date it is given.  What each
\* view makes of a record is the subject of the views' own specification.
ViewCall(st, now) == [state |-> st, now |-> now]

\* the four cards, in the order they are printed and saved, the directory
\* they are saved in, and the line of the status console (line 747)
export_status_cards(st, base_path, now) ==
    Built([cards |-> << "build_campaign_table", "build_analytics_panel",
                        "build_segment_table", "build_actions_panel" >>,
           call |-> ViewCall(st, now),
           directory |-> PathParent(base_path),
           status |-> CheckMark \o " Exported 4 status cards to "
                          \o PathStr(PathParent(base_path)) \o "/"],
          st)

\* creative_mode(console): the answer to the prompt, and the plan the studio shows
creative_mode(idea, st, now) ==
    Built([idea |-> idea, plan |-> generate_auto_plan(idea, NoTable, now)], st)

\* main, lines 1352-1384, on the flags a and the state st: the view called,
\* what it returned or that it raised, the record as the view leaves it, and
\* the lines of the status console.  render_dashboard raises what
\* build_integration_table raises (lines 871 and 497), and main ends there:
\* no snapshot is saved and no status line is printed.
main_views(a, st, now, idea) ==
    IF a.brief
    THEN [builder |-> "render_brief_mode", result |-> Built(ViewCall(st, now), st),
          lines |-> <<>>]
    ELSE IF a.export_cards
    THEN [builder |-> "export_status_cards",
          result |-> export_status_cards(st, a.snapshot_path, now),
          lines |-> << export_status_cards(st, a.snapshot_path, now).out.status >>]
    ELSE IF a.creative_mode
    THEN [builder |-> "creative_mode", result |-> creative_mode(idea, st, now), lines |-> <<>>]
    ELSE IF should_render_dashboard(a) /\ active_connectors(st) = NullRows
    THEN [builder |-> "render_dashboard", result |-> BuildRaised("TypeError", st),
          lines |-> <<>>]
    ELSE [builder |-> IF should_render_dashboard(a) THEN "render_dashboard" ELSE "none",
          result |-> IF should_render_dashboard(a) THEN Built(ViewCall(st, now), st)
                     ELSE Built(<<>>, st),
          lines |-> IF a.snapshot
                    THEN << "Saved snapshot to " \o PathStr(a.snapshot_path) >>
                    ELSE <<>>]

\* the views applied to the variables; an exception of the view ends the
\* invocation
Shown(a, shown) ==
    /\ args' = a
    /\ view' = IF IsRaised(shown.result)
                THEN RaisedView(shown.builder, shown.result.out.raised)
                ELSE [builder |-> shown.builder, out |-> shown.result.out]
    /\ state' = shown.result.state
    /\ console' = console \o shown.lines
    /\ exit_msg' = IF IsRaised(shown.result) THEN shown.result.out.raised ELSE exit_msg
    /\ pc' = IF IsRaised(shown.result) THEN "crashed" ELSE "rendered"

\* main, lines 1352-1384: the commands have returned; the view flags of the
\* command line, which nothing before line 1353 reads, pick the view
Render ==
    /\ pc = "generated"
    /\ \E brief \in BOOLEAN, export_cards \in BOOLEAN, cm \in BOOLEAN,
          summary \in BOOLEAN, snapshot \in BOOLEAN, snapshot_path \in SnapshotPathArgs :
          \E a \in {[args EXCEPT !.brief = brief, !.export_cards = export_cards,
                                !.creative_mode = cm, !.summary = summary,
                                !.snapshot = snapshot,
                                !.snapshot_path = snapshot_path]},
             idea \in Asked(brief, export_cards, cm) :
                Shown(a, main_views(a, state, today, idea))
    /\ UNCHANGED <<disk, saves, disk0, prev, today, runs>>
    /\ UNCHANGED <<vstate, vstate0>>
    /\ UNCHANGED <<plan_vars, race_vars, store_vars>>

RenderNext ==
    \/ Start
    \/ ValidateNextSend
    \/ ResetSample
    \/ AddCampaign
    \/ SelectStrategy
    \/ GenerateVideo
    \/ Render

-----------------------------------------------------------------------------
(* Calls of generate_auto_plan one after the other, with the state file    *)
(* of the program in place.                                                *)

\* the day of the first call
CallsFirstDay == Date(2026, 10, 30)

\* the main program is not running; data/state.json is missing or holds
\* the sample record
CallsMainIdle ==
    /\ today = CallsFirstDay
    /\ disk \in {Absent, json_dump(sample_state(today))}
    /\ disk0 = disk
    /\ state = EmptyDict
    /\ args = ArgDefaults
    /\ pc = "off"
    /\ exit_msg = ""
    /\ console = <<>>
    /\ saves = <<>>
    /\ prev = NoCommand
    /\ runs = 0

\* auto_plan = generate_auto_plan(idea, automation_rules)
CallWith(idea) ==
    /\ plan_pc = "calls"
    /\ Len(plan_calls) < MaxCalls
    /\ \E call \in {generate_auto_plan_call(idea, automation_rules, disk, today, plan_objects)} :
          /\ auto_plan' = call.objects[call.plan]
          /\ automation_rules' = call.rules
          /\ disk' = call.file
          /\ plan_objects' = call.objects
          /\ plan_calls' = Append(plan_calls, [idea |-> idea, now |-> today, object |-> call.plan,
                                               plan |-> call.objects[call.plan]])
    /\ creative_idea' = idea
    /\ UNCHANGED plan_pc
    /\ UNCHANGED <<state, args, pc, exit_msg, console, saves, disk0, prev, today, runs>>
    /\ UNCHANGED <<race_vars, view_vars, store_vars>>

\* midnight passes between two calls: date.today() gives the next day
Midnight ==
    /\ plan_pc = "calls"
    /\ today = CallsFirstDay
    /\ today' = NextDay(today)
    /\ UNCHANGED <<state, args, pc, exit_msg, console, saves, disk, disk0, prev, runs>>
    /\ UNCHANGED <<plan_vars, race_vars, view_vars, store_vars>>

\* the caller of an earlier call changes the plan it was given
CallerEditsPlan(k) ==
    /\ plan_pc = "calls"
    /\ k \in 1..Len(plan_objects)
    /\ Cardinality({j \in 1..Len(plan_objects) : plan_objects[j] # plan_calls[j].plan}) < MaxEdits
    /\ plan_objects[k] = plan_calls[k].plan
    /\ plan_objects' = [plan_objects EXCEPT ![k] = caller_edit(@)]
    /\ UNCHANGED <<creative_idea, automation_rules, auto_plan, plan_pc, plan_calls>>
    /\ UNCHANGED <<main_vars, race_vars, view_vars, store_vars>>

CallsNext ==
    \/ \E idea \in CallIdeas : CallWith(idea)
    \/ Midnight
    \/ \E k \in 1..MaxCalls : CallerEditsPlan(k)

----------------------------------------------------------------------------
(* The state file as text: json.dump(state, handle, indent=2) and json.load *)

\* A Python value as the json module sees it.  A str is its characters; a
\* float is the decimal n / 10^e that repr() prints for it (n has no trailing
\* zero when e > 0, and the decimal has at most 15 significant digits and lies
\* where repr() uses positional notation); a dict is its items in insertion
\* order, each <<key, value>> with a str key.
PyStr(s) == [t |-> "str", s |-> s, n |-> 0, e |-> 0, items |-> <<>>]
PyInt(n) == [t |-> "int", s |-> <<>>, n |-> n, e |-> 0, items |-> <<>>]
PyFloat(n, e) == [t |-> "float", s |-> <<>>, n |-> n, e |-> e, items |-> <<>>]
PyBool(b) == [t |-> "bool", s |-> <<>>, n |-> IF b THEN 1 ELSE 0, e |-> 0, items |-> <<>>]
PyNull == [t |-> "none", s |-> <<>>, n |-> 0, e |-> 0, items |-> <<>>]
PyList(items) == [t |-> "list", s |-> <<>>, n |-> 0, e |-> 0, items |-> items]
PyDict(items) == [t |-> "dict", s |-> <<>>, n |-> 0, e |-> 0, items |-> items]
\* float('nan') (n = 0), float('inf') (n = 1) and float('-inf') (n = -1)
PyNonFinite(n) == [t |-> "nonfinite", s |-> <<>>, n |-> n, e |-> 0, items |-> <<>>]

HexDigits == <<"0", "1", "2", "3", "4", "5", "6", "7", "8", "9", "a", "b", "c", "d", "e", "f">>

\* '{0:04x}'.format(cp), as characters
Hex4(cp) ==
    << HexDigits[((cp \div 4096) % 16) + 1], HexDigits[((cp \div 256) % 16) + 1],
       HexDigits[((cp \div 16) % 16) + 1], HexDigits[(cp % 16) + 1] >>

RECURSIVE HexStr(_)
HexStr(cp) ==
    IF cp < 16 THEN HexDigits[cp + 1]
    ELSE HexStr(cp \div 16) \o HexDigits[(cp % 16) + 1]

\* chr(cp): a character outside tab, newline and the printable ASCII range is
\* named by its code point
CharOf(cp) ==
    IF cp = 9 THEN "\t"
    ELSE IF cp = 10 THEN "\n"
    ELSE IF cp >= 32 /\ cp <= 126 THEN AsciiChars[cp - 31]
    ELSE "U+" \o HexStr(cp)

\* the code points of the named characters that the texts of the model hold:
\* backspace, form feed, carriage return, DEL, e-acute, the em dash of the
\* sample state, a lone high surrogate and the rocket emoji
NamedPoints == {8, 12, 13, 127, 233, 8212, 55357, 128640}

\* ord(c)
CodePoint(c) ==
    IF c \in DOMAIN OrdTable THEN OrdTable[c]
    ELSE CHOOSE cp \in NamedPoints : CharOf(cp) = c

\* json.encoder.encode_basestring_ascii on one character: ESCAPE_DCT for the
\* quote, the backslash and the short escapes, the character itself in the
\* range ' '..'~', a \uXXXX escape otherwise (a surrogate pair above U+FFFF)
escape_ascii(c) ==
    LET cp == CodePoint(c) IN
    IF cp = 34 THEN <<"\\", "\"">>
    ELSE IF cp = 92 THEN <<"\\", "\\">>
    ELSE IF cp = 10 THEN <<"\\", "n">>
    ELSE IF cp = 13 THEN <<"\\", "r">>
    ELSE IF cp = 9 THEN <<"\\", "t">>
    ELSE IF cp = 8 THEN <<"\\", "b">>
    ELSE IF cp = 12 THEN <<"\\", "f">>
    ELSE IF cp >= 32 /\ cp <= 126 THEN <<c>>
    ELSE IF cp < 65536 THEN <<"\\", "u">> \o Hex4(cp)
    ELSE LET v == cp - 65536
             s1 == 55296 + ((v \div 1024) % 1024)
             s2 == 56320 + (v % 1024)
         IN  <<"\\", "u">> \o Hex4(s1) \o <<"\\", "u">> \o Hex4(s2)

RECURSIVE escaped_from(_, _)
escaped_from(s, i) ==
    IF i > Len(s) THEN <<>>
    ELSE escape_ascii(s[i]) \o escaped_from(s, i + 1)

\* the same encoder without ESCAPE_DCT: quotes and backslashes go out as they are
encode_basestring_unescaped(s) == <<"\"">> \o s \o <<"\"">>

\* json.encoder.encode_basestring_ascii(s)
encode_basestring_ascii(s) == <<"\"">> \o escaped_from(s, 1) \o <<"\"">>

RECURSIVE Pow10(_)
Pow10(k) == IF k = 0 THEN 1 ELSE 10 * Pow10(k - 1)

RECURSIVE NatChars(_)
NatChars(n) ==
    IF n < 10 THEN <<DigitStr[n + 1]>>
    ELSE NatChars(n \div 10) \o <<DigitStr[(n % 10) + 1]>>

\* int.__repr__
int_repr(n) == IF n < 0 THEN <<"-">> \o NatChars(0 - n) ELSE NatChars(n)

\* the last k decimal digits of n, zero-padded
RECURSIVE LastDigits(_, _)
LastDigits(n, k) ==
    IF k = 0 THEN <<>>
    ELSE LastDigits(n \div 10, k - 1) \o <<DigitStr[(n % 10) + 1]>>

\* float.__repr__ in positional notation: at least one fractional digit
float_repr(n, e) ==
    LET a == IF n < 0 THEN 0 - n ELSE n
        sign == IF n < 0 THEN <<"-">> ELSE <<>>
    IN  sign \o NatChars(a \div Pow10(e)) \o <<".">>
             \o (IF e = 0 THEN <<"0">> ELSE LastDigits(a % Pow10(e), e))

RECURSIVE Spaces(_)
Spaces(k) == IF k = 0 THEN <<>> ELSE <<" ">> \o Spaces(k - 1)

\* '\n' + indent * level, with indent = 2 spaces
newline_indent(level) == <<"\n">> \o Spaces(2 * level)

\* json.encoder._make_iterencode with indent=2, separators (',', ': '),
\* ensure_ascii, joined into one text; level is _current_indent_level
RECURSIVE json_encode(_, _)
RECURSIVE encode_items(_, _, _, _)
encode_items(isDict, items, i, level) ==
    IF i > Len(items) THEN <<>>
    ELSE (IF i = 1 THEN <<>> ELSE <<",">>) \o newline_indent(level + 1)
         \o (IF isDict
             THEN encode_basestring_ascii(items[i][1]) \o <<":", " ">>
                  \o json_encode(items[i][2], level + 1)
             ELSE json_encode(items[i], level + 1))
         \o encode_items(isDict, items, i + 1, level)

json_encode(v, level) ==
    IF v.t = "str" THEN encode_basestring_ascii(v.s)
    ELSE IF v.t = "none" THEN <<"n", "u", "l", "l">>
    ELSE IF v.t = "bool" THEN (IF v.n = 1 THEN <<"t", "r", "u", "e">>
                               ELSE <<"f", "a", "l", "s", "e">>)
    ELSE IF v.t = "int" THEN int_repr(v.n)
    ELSE IF v.t = "float" THEN float_repr(v.n, v.e)
    ELSE IF v.t = "nonfinite" THEN
        (IF v.n = 0 THEN <<"N", "a", "N">>
         ELSE (IF v.n < 0 THEN <<"-">> ELSE <<>>) \o <<"I", "n", "f", "i", "n", "i", "t", "y">>)
    ELSE IF v.t = "list" THEN
        IF v.items = <<>> THEN <<"[", "]">>
        ELSE <<"[">> \o encode_items(FALSE, v.items, 1, level)
             \o newline_indent(level) \o <<"]">>
    ELSE
        IF v.items = <<>> THEN <<"{", "}">>
        ELSE <<"{">> \o encode_items(TRUE, v.items, 1, level)
             \o newline_indent(level) \o <<"}">>

\* ---- json.load: json.decoder and json.scanner ----

\* what a scanning step returns: a value and the index after it, or the
\* JSONDecodeError raised
Scanned(v, i) == [ok |-> TRUE, v |-> v, i |-> i]
JSONDecodeError == [ok |-> FALSE, v |-> PyNull, i |-> 0]

\* s[i:i+1], with "" past the end
At(t, i) == IF i >= 1 /\ i <= Len(t) THEN t[i] ELSE ""

\* json.decoder.WHITESPACE: [ \t\n\r]*
RECURSIVE skip_ws(_, _)
skip_ws(t, i) ==
    IF i <= Len(t) /\ t[i] \in {" ", "\t", "\n", CharOf(13)} THEN skip_ws(t, i + 1)
    ELSE i

\* the value of one hexadecimal digit, -1 for any other character
HexVal(c) ==
    IF c = "" THEN -1
    ELSE IF IsDigit(c) THEN DigitVal(c)
    ELSE IF \E k \in 11..16 : HexDigits[k] = c THEN (CHOOSE k \in 11..16 : HexDigits[k] = c) - 1
    ELSE IF \E k \in 11..16 : UpperChar(HexDigits[k]) = c
         THEN (CHOOSE k \in 11..16 : UpperChar(HexDigits[k]) = c) - 1
    ELSE -1

\* the four hexadecimal digits of a \uXXXX escape at t[i..i+3], -1 when invalid
decode_uXXXX(t, i) ==
    LET a == HexVal(At(t, i))
        b == HexVal(At(t, i + 1))
        c == HexVal(At(t, i + 2))
        d == HexVal(At(t, i + 3))
    IN  IF a < 0 \/ b < 0 \/ c < 0 \/ d < 0 THEN -1
        ELSE 4096 * a + 256 * b + 16 * c + d

\* json.decoder.BACKSLASH: what the character after a backslash stands for
unescape(esc) ==
    IF esc = "\"" THEN "\""
    ELSE IF esc = "\\" THEN "\\"
    ELSE IF esc = "/" THEN "/"
    ELSE IF esc = "b" THEN CharOf(8)
    ELSE IF esc = "f" THEN CharOf(12)
    ELSE IF esc = "n" THEN "\n"
    ELSE IF esc = "r" THEN CharOf(13)
    ELSE IF esc = "t" THEN "\t"
    ELSE ""

\* json.decoder.scanstring(s, end, strict=True): i is just after the opening quote
RECURSIVE scanstring(_, _, _)
scanstring(t, i, acc) ==
    IF i > Len(t) THEN JSONDecodeError
    ELSE IF t[i] = "\"" THEN Scanned(PyStr(acc), i + 1)
    ELSE IF t[i] = "\\" THEN
        IF At(t, i + 1) = "u" THEN
            LET uni == decode_uXXXX(t, i + 2)
                uni2 == decode_uXXXX(t, i + 8)
            IN  IF uni < 0 THEN JSONDecodeError
                ELSE IF uni >= 55296 /\ uni <= 56319
                        /\ At(t, i + 6) = "\\" /\ At(t, i + 7) = "u"
                     THEN IF uni2 < 0 THEN JSONDecodeError
                          ELSE IF uni2 >= 56320 /\ uni2 <= 57343
                          THEN scanstring(t, i + 12,
                                   Append(acc, CharOf(65536 + (uni - 55296) * 1024
                                                            + (uni2 - 56320))))
                          ELSE scanstring(t, i + 6, Append(acc, CharOf(uni)))
                ELSE scanstring(t, i + 6, Append(acc, CharOf(uni)))
        ELSE IF unescape(At(t, i + 1)) = "" THEN JSONDecodeError
        ELSE scanstring(t, i + 2, Append(acc, unescape(At(t, i + 1))))
    ELSE IF CodePoint(t[i]) < 32 THEN JSONDecodeError
    ELSE scanstring(t, i + 1, Append(acc, t[i]))

\* the index after the run of digits that starts at i
RECURSIVE skip_digits(_, _)
skip_digits(t, i) == IF i <= Len(t) /\ IsDigit(t[i]) THEN skip_digits(t, i + 1) ELSE i

\* int() of the digits t[i..j-1]
RECURSIVE digits_value(_, _, _)
digits_value(t, i, j) ==
    IF i >= j THEN 0 ELSE 10 * digits_value(t, i, j - 1) + DigitVal(t[j - 1])

\* the decimal n / 10^e without trailing fractional zeros
RECURSIVE normal_float(_, _)
normal_float(n, e) ==
    IF n = 0 THEN PyFloat(0, 0)
    ELSE IF e < 0 THEN normal_float(n * 10, e + 1)
    ELSE IF e > 0 /\ n % 10 = 0 THEN normal_float(n \div 10, e - 1)
    ELSE PyFloat(n, e)

\* json.scanner.NUMBER_RE at i: (-?(?:0|[1-9]\d*))(\.\d+)?([eE][-+]?\d+)?
\* then int(integer), or float(integer + frac + exp) when there is a
\* fraction or an exponent
match_number(t, i) ==
    LET neg == At(t, i) = "-"
        i0 == IF neg THEN i + 1 ELSE i
        i1 == IF At(t, i0) = "0" THEN i0 + 1 ELSE skip_digits(t, i0)
        hasFrac == At(t, i1) = "." /\ At(t, i1 + 1) # "" /\ IsDigit(At(t, i1 + 1))
        i2 == IF hasFrac THEN skip_digits(t, i1 + 1) ELSE i1
        signed == At(t, i2 + 1) \in {"+", "-"}
        x0 == IF signed THEN i2 + 2 ELSE i2 + 1
        hasExp == At(t, i2) \in {"e", "E"} /\ At(t, x0) # "" /\ IsDigit(At(t, x0))
        i3 == IF hasExp THEN skip_digits(t, x0) ELSE i2
        whole == digits_value(t, i0, i1)
        fracLen == IF hasFrac THEN i2 - (i1 + 1) ELSE 0
        mant == whole * Pow10(fracLen)
                + (IF hasFrac THEN digits_value(t, i1 + 1, i2) ELSE 0)
        ex == IF hasExp
              THEN (IF At(t, i2 + 1) = "-" THEN 0 - digits_value(t, x0, i3)
                    ELSE digits_value(t, x0, i3))
              ELSE 0
        sgn == IF neg THEN -1 ELSE 1
    IN  IF i1 = i0 THEN JSONDecodeError
        ELSE IF hasFrac \/ hasExp THEN Scanned(normal_float(sgn * mant, fracLen - ex), i3)
        ELSE Scanned(PyInt(sgn * whole), i1)

\* t[i..] starts with the characters of word
StartsWith(t, i, word) ==
    /\ i + Len(word) - 1 <= Len(t)
    /\ SubSeq(t, i, i + Len(word) - 1) = word

\* dict(pairs): a repeated key keeps its first place and takes the last value
DictSet(items, key, value) ==
    IF \E k \in 1..Len(items) : items[k][1] = key
    THEN [k \in 1..Len(items) |-> IF items[k][1] = key THEN <<key, value>> ELSE items[k]]
    ELSE Append(items, <<key, value>>)

\* json.scanner.py_make_scanner's _scan_once, json.decoder.JSONArray and
\* json.decoder.JSONObject
RECURSIVE scan_once(_, _)
RECURSIVE JSONArray(_, _, _)
RECURSIVE JSONObject(_, _, _)

\* JSONArray once an element r is read: "]" ends the list, "," precedes the
\* next element
array_after(t, acc, r) ==
    IF ~r.ok THEN JSONDecodeError
    ELSE IF At(t, skip_ws(t, r.i)) = "]"
         THEN Scanned(PyList(Append(acc, r.v)), skip_ws(t, r.i) + 1)
    ELSE IF At(t, skip_ws(t, r.i)) = ","
         THEN JSONArray(t, skip_ws(t, skip_ws(t, r.i) + 1), Append(acc, r.v))
    ELSE JSONDecodeError

\* JSONArray: i is where an element starts, acc holds the elements read so far
JSONArray(t, i, acc) == array_after(t, acc, scan_once(t, i))

\* JSONObject once a key k and its value r are read: "}" ends the dict, ","
\* and an opening quote precede the next key
object_after(t, acc, k, r) ==
    IF ~r.ok THEN JSONDecodeError
    ELSE IF At(t, skip_ws(t, r.i)) = "}"
         THEN Scanned(PyDict(DictSet(acc, k.v.s, r.v)), skip_ws(t, r.i) + 1)
    ELSE IF /\ At(t, skip_ws(t, r.i)) = ","
            /\ At(t, skip_ws(t, skip_ws(t, r.i) + 1)) = "\""
         THEN JSONObject(t, skip_ws(t, skip_ws(t, r.i) + 1) + 1, DictSet(acc, k.v.s, r.v))
    ELSE JSONDecodeError

\* JSONObject once a key k is read: ":" and the value follow
object_value(t, acc, k) ==
    IF ~k.ok THEN JSONDecodeError
    ELSE IF At(t, skip_ws(t, k.i)) # ":" THEN JSONDecodeError
    ELSE object_after(t, acc, k, scan_once(t, skip_ws(t, skip_ws(t, k.i) + 1)))

\* JSONObject: i is just after the opening quote of a key, acc holds the
\* items read so far
JSONObject(t, i, acc) == object_value(t, acc, scanstring(t, i, <<>>))

\* _scan_once for a text that goes on with a number or with none of the
\* other values
scan_number(t, i, number) ==
    IF number.ok THEN number
    ELSE IF StartsWith(t, i, <<"N", "a", "N">>) THEN Scanned(PyNonFinite(0), i + 3)
    ELSE IF StartsWith(t, i, <<"I", "n", "f", "i", "n", "i", "t", "y">>)
         THEN Scanned(PyNonFinite(1), i + 8)
    ELSE IF StartsWith(t, i, <<"-", "I", "n", "f", "i", "n", "i", "t", "y">>)
         THEN Scanned(PyNonFinite(-1), i + 9)
    ELSE JSONDecodeError

scan_once(t, i) ==
    IF At(t, i) = "" THEN JSONDecodeError
    ELSE IF At(t, i) = "\"" THEN scanstring(t, i + 1, <<>>)
    ELSE IF At(t, i) = "{" THEN
        IF At(t, skip_ws(t, i + 1)) = "}" THEN Scanned(PyDict(<<>>), skip_ws(t, i + 1) + 1)
        ELSE IF At(t, skip_ws(t, i + 1)) = "\"" THEN JSONObject(t, skip_ws(t, i + 1) + 1, <<>>)
        ELSE JSONDecodeError
    ELSE IF At(t, i) = "[" THEN
        IF At(t, skip_ws(t, i + 1)) = "]" THEN Scanned(PyList(<<>>), skip_ws(t, i + 1) + 1)
        ELSE JSONArray(t, skip_ws(t, i + 1), <<>>)
    ELSE IF StartsWith(t, i, <<"n", "u", "l", "l">>) THEN Scanned(PyNull, i + 4)
    ELSE IF StartsWith(t, i, <<"t", "r", "u", "e">>) THEN Scanned(PyBool(TRUE), i + 4)
    ELSE IF StartsWith(t, i, <<"f", "a", "l", "s", "e">>) THEN Scanned(PyBool(FALSE), i + 5)
    ELSE scan_number(t, i, match_number(t, i))

\* JSONDecoder.decode once the value r is read: only whitespace may follow
\* ("Extra data" otherwise)
decode_end(t, r) ==
    IF r.ok /\ skip_ws(t, r.i) = Len(t) + 1 THEN r
    ELSE JSONDecodeError

\* json.decoder.JSONDecoder.decode: one value between optional whitespace
json_decode(t) == decode_end(t, scan_once(t, skip_ws(t, 1)))

\* ---- data/state.json as text ----

\* Content of data/state.json: no file, bytes that are not UTF-8 text, a
\* text, or the text reset_state() writes for sample_state() (spelled out in
\* the main specification, only named here).
AbsentFile == [kind |-> "absent", data |-> <<>>]
UndecodableFile == [kind |-> "undecodable", data |-> <<>>]
SampleFile == [kind |-> "sample", data |-> <<>>]
TextFile(text) == [kind |-> "text", data |-> text]

\* save_state(state) on text: the file content after the call
save_state_text(value) == TextFile(json_encode(value, 0))

\* load_state() once json.load has returned r or raised JSONDecodeError
json_load_or_reset(file, r) ==
    IF r.ok THEN [outcome |-> "loaded", value |-> r.v, file |-> file]
    ELSE [outcome |-> "reset", value |-> PyNull, file |-> SampleFile]

\* load_state() on text: what it returns (the loaded record, the sample
\* record of reset_state(), or the exception that leaves it) and the file
\* content it leaves
load_state_text(file) ==
    IF file.kind = "absent" THEN
        [outcome |-> "reset", value |-> PyNull, file |-> SampleFile]
    ELSE IF file.kind = "undecodable" THEN
        [outcome |-> "raised", value |-> PyNull, file |-> file]
    ELSE IF file.kind = "sample" THEN
        [outcome |-> "sample", value |-> PyNull, file |-> file]
    ELSE json_load_or_reset(file, json_decode(file.data))

----------------------------------------------------------------------------
(* Inputs of the state file as text *)

\* rows per collection in the records that are saved
MaxRows == 2

\* names with the characters json.dump escapes: a quote and a backslash, a
\* tab and a newline, the sample state's em dash, an e-acute and an emoji
StoreNames ==
    { <<"A", "c", "m", "e">>,
      <<>>,
      <<"a", "\"", "b", "\\", "c", "/">>,
      <<"\t", CharOf(8212), "\n", CharOf(233), CharOf(128640), CharOf(127)>> }

K_name == <<"n", "a", "m", "e">>
K_profile == <<"p", "r", "o", "f", "i", "l", "e">>
K_segments == <<"s", "e", "g", "m", "e", "n", "t", "s">>
K_connectors == <<"c", "o", "n", "n", "e", "c", "t", "o", "r", "s">>
K_databases == <<"d", "a", "t", "a", "b", "a", "s", "e", "s">>
K_analytics == <<"a", "n", "a", "l", "y", "t", "i", "c", "s">>

\* the top-level keys the records draw from, in sample_state's order
StoreKeys == {K_profile, K_segments, K_connectors, K_databases, K_analytics}

\* a Segment: name, criteria (ordered list of strings), size, nurtured
SegmentValue(i, name) ==
    PyDict(<< <<K_name, PyStr(name \o <<Digit(i % 10)>>)>>,
              <<<<"c", "r", "i", "t", "e", "r", "i", "a">>,
                PyList([j \in 1..(i - 1) |-> PyStr(<<"<", " ", Digit(j % 10)>>)])>>,
              <<<<"s", "i", "z", "e">>, PyInt(17 * i)>>,
              <<<<"n", "u", "r", "t", "u", "r", "e", "d">>, PyInt(i - 1)>> >>)

\* a Connector: name, status, last_sync (an em dash when never synced)
ConnectorValue(i, name) ==
    PyDict(<< <<K_name, PyStr(name)>>,
              <<<<"s", "t", "a", "t", "u", "s">>, PyStr(<<"o", "k">>)>>,
              <<<<"l", "a", "s", "t", "_", "s", "y", "n", "c">>, PyStr(<<CharOf(8212)>>)>> >>)

\* a Database: name, storage_gb (a float such as 12.4, 23.7 or 35.0, as the
\* value it is: 35.0 has no fractional digit to keep), connections
DatabaseValue(i, name) ==
    PyDict(<< <<K_name, PyStr(name)>>,
              <<<<"s", "t", "o", "r", "a", "g", "e", "_", "g", "b">>, normal_float(113 * i + 11, 1)>>,
              <<<<"c", "o", "n", "n", "e", "c", "t", "i", "o", "n", "s">>, PyInt(58 - 44 * i)>> >>)

\* the analytics record: rates (floats), conversions (int), ab_tests (a list)
AnalyticsValue(k, name) ==
    PyDict(<< <<<<"o", "p", "e", "n", "_", "r", "a", "t", "e">>, PyFloat(46, 2)>>,
              <<<<"r", "e", "p", "l", "y", "_", "r", "a", "t", "e">>, PyFloat(1, 1)>>,
              <<<<"s", "c", "o", "r", "e">>, PyFloat(5, 0)>>,
              <<<<"c", "o", "n", "v", "e", "r", "s", "i", "o", "n", "s">>, PyInt(5)>>,
              <<<<"a", "b", "_", "t", "e", "s", "t", "s">>,
                PyList([i \in 1..k |->
                          PyDict(<< <<K_name, PyStr(name)>>,
                                    <<<<"u", "p", "l", "i", "f", "t">>,
                                      normal_float(12 - 37 * (i - 1), 2 + i)>> >>)])>> >>)

\* every collection of a record with k rows, in sample_state's key order
StoreItems(k, name) ==
    << <<K_profile, PyDict(<< <<<<"o", "w", "n", "e", "r">>, PyStr(name)>> >>)>>,
       <<K_segments, PyList([i \in 1..k |-> SegmentValue(i, name)])>>,
       <<K_connectors, PyList([i \in 1..k |-> ConnectorValue(i, name)])>>,
       <<K_databases, PyList([i \in 1..k |-> DatabaseValue(i, name)])>>,
       <<K_analytics, AnalyticsValue(k, name)>> >>

\* a state record that holds the collections named in present, k rows each
StoreRecord(present, k, name) ==
    PyDict(SelectSeq(StoreItems(k, name), LAMBDA item : item[1] \in present))

StoreRecords ==
    {StoreRecord(present, k, name) : present \in SUBSET StoreKeys, k \in 0..MaxRows,
                                     name \in StoreNames}

\* texts another program or an editor left in data/state.json: compact JSON
\* with CR LF line ends, escapes and an exponent; a truncated text; a value
\* followed by more text
HandWritten ==
    { <<"{", "\"", "a", "\"", ":", "[", "1", ",", "-", "2", ".", "5", "0", ",", "1", "e", "2", ",",
        "n", "u", "l", "l", ",", "t", "r", "u", "e", "]", ",", CharOf(13), "\n",
        "\"", "b", "\"", " ", ":", "\"", "\\", "u", "0", "0", "E", "9", "\\", "/", "\\", "n", "\"",
        ",", "\"", "a", "\"", ":", "{", "}", "}", "\n">>,
      <<"{", "\"", "c", "a", "m", "p", "a", "i", "g", "n", "s", "\"", ":", " ", "[">>,
      <<"{", "}", " ", "x">> }

StoreFiles == {AbsentFile, UndecodableFile} \cup {TextFile(text) : text \in HandWritten}

----------------------------------------------------------------------------
(* save_state and load_state called on the text of the file *)

NotLoaded == [outcome |-> "none", value |-> PyNull]

StoreIdle ==
    /\ sfile = AbsentFile
    /\ srecord = PyNull
    /\ sloaded = NotLoaded
    /\ spc = "idle"

StoreInit ==
    /\ sfile \in StoreFiles
    /\ srecord = PyNull
    /\ sloaded = NotLoaded
    /\ spc = "start"

\* load_state()
LoadState ==
    /\ spc \in {"start", "saved"}
    /\ \E l \in {load_state_text(sfile)} :
        /\ sloaded' = [outcome |-> l.outcome, value |-> l.value]
        /\ sfile' = l.file
    /\ spc' = IF spc = "start" THEN "loaded" ELSE "reloaded"
    /\ UNCHANGED srecord
    /\ UNCHANGED <<plan_vars, main_vars, race_vars, view_vars>>

\* save_state(record), by a caller that built the record
SaveState ==
    /\ spc = "start" \/ (spc = "loaded" /\ sloaded.outcome # "raised")
    /\ \E r \in StoreRecords :
        /\ srecord' = r
        /\ sfile' = save_state_text(r)
    /\ sloaded' = NotLoaded
    /\ spc' = "saved"
    /\ UNCHANGED <<plan_vars, main_vars, race_vars, view_vars>>

K_campaigns == <<"c", "a", "m", "p", "a", "i", "g", "n", "s">>

\* dict.get(key, default) on a dict value
ValueOf(value, key, default) ==
    IF \E k \in 1..Len(value.items) : value.items[k][1] = key
    THEN value.items[CHOOSE k \in 1..Len(value.items) : value.items[k][1] = key][2]
    ELSE default

\* the options of --add-campaign --name Launch --segment Leads --trigger
\* Signup --channel Email --template Welcome, with --status at its default
\* and --next-send left out; and the same with a name that has the
\* characters json.dump escapes and --next-send 2026-11-05
StoreCampaign(name, next_send) ==
    [name |-> name, segment |-> <<"L", "e", "a", "d", "s">>, trigger |-> <<"S", "i", "g", "n", "u", "p">>,
     channel |-> <<"E", "m", "a", "i", "l">>, template |-> <<"W", "e", "l", "c", "o", "m", "e">>,
     status |-> <<"s", "c", "h", "e", "d", "u", "l", "e", "d">>, next_send |-> next_send]

StoreCampaignArgs ==
    { StoreCampaign(<<"L", "a", "u", "n", "c", "h">>, <<>>),
      StoreCampaign(<<"a", "\"", "b", "\\", "c", "/">>, <<"2", "0", "2", "6", "-", "1", "1", "-", "0", "5">>) }

\* add_campaign(args, state), lines 1232-1243, on a dict value:
\* state.setdefault("campaigns", []) and the append of the campaign
add_campaign_value(a, value, now) ==
    LET campaigns == ValueOf(value, K_campaigns, PyList(<<>>))
        campaign ==
            PyDict(<< <<K_name, PyStr(a.name)>>,
                      <<<<"s", "e", "g", "m", "e", "n", "t">>, PyStr(a.segment)>>,
                      <<<<"t", "r", "i", "g", "g", "e", "r">>, PyStr(a.trigger)>>,
                      <<<<"c", "h", "a", "n", "n", "e", "l">>, PyStr(a.channel)>>,
                      <<<<"t", "e", "m", "p", "l", "a", "t", "e">>, PyStr(a.template)>>,
                      <<<<"s", "t", "a", "t", "u", "s">>, PyStr(a.status)>>,
                      <<<<"n", "e", "x", "t", "_", "s", "e", "n", "d">>,
                        PyStr(IF a.next_send = <<>> THEN today_iso(now) ELSE a.next_send)>> >>)
    IN  PyDict(DictSet(value.items, K_campaigns, PyList(Append(campaigns.items, campaign))))

\* main --add-campaign on the record load_state() returned from the file
\* (lines 1331 and 1340): add_campaign appends the campaign to the record
\* and calls save_state(state).  The records here have no campaigns key or
\* a list under it; the campaigns are capped at MaxRows.
AddCampaignToLoaded ==
    /\ spc \in {"loaded", "reloaded"}
    /\ sloaded.outcome = "loaded"
    /\ sloaded.value.t = "dict"
    /\ ValueOf(sloaded.value, K_campaigns, PyList(<<>>)).t = "list"
    /\ Len(ValueOf(sloaded.value, K_campaigns, PyList(<<>>)).items) < MaxRows
    /\ \E a \in StoreCampaignArgs :
          \E r \in {add_campaign_value(a, sloaded.value, today)} :
              /\ srecord' = r
              /\ sfile' = save_state_text(r)
    /\ sloaded' = NotLoaded
    /\ spc' = "saved"
    /\ UNCHANGED <<plan_vars, main_vars, race_vars, view_vars>>

StoreNext == LoadState \/ SaveState \/ AddCampaignToLoaded

----------------------------------------------------------------------------
(* Specifications *)

PlanNext == CallGenerateAutoPlan \/ AskAgain

InitPlan == PlanInit /\ MainIdle /\ RaceIdle /\ ViewIdle /\ StoreIdle

\* the rule matcher on its own
SpecPlan == InitPlan /\ [][PlanNext]_vars

Init == MainInit /\ PlanIdle /\ RaceIdle /\ ViewIdle /\ StoreIdle

Next == MainNext

\* invocations of main, one after the other
Spec == Init /\ [][Next]_vars

InitRace == MainIdle /\ PlanIdle /\ ViewIdle /\ StoreIdle /\ RaceInit

\* two invocations of main at the same time
SpecRace == InitRace /\ [][RaceNext]_vars

InitCalls == CallsMainIdle /\ CallsInit /\ RaceIdle /\ ViewIdle /\ StoreIdle

\* generate_auto_plan called again and again
SpecCalls == InitCalls /\ [][CallsNext]_vars

InitView == MainIdle /\ PlanIdle /\ RaceIdle /\ StoreIdle /\ ViewInit

\* the views called on a state record
SpecView == InitView /\ [][ViewNext]_vars

InitStore == MainIdle /\ PlanIdle /\ RaceIdle /\ ViewIdle /\ StoreInit

\* save_state and load_state on the text of the file
SpecStore == InitStore /\ [][StoreNext]_vars

\* the sample record after an editor or another program has set both
\* connector keys to null
null_connectors_state(now) ==
    Put([sample_state(now) EXCEPT !.integrations = NullRows], "connectors", NullRows)

\* the last invocation the bound allows is about to start: data/state.json
\* is any stored file, as earlier invocations or an editor have left it
RenderMainInit ==
    /\ today \in Dates
    /\ disk \in StoredFiles(today) \cup {json_dump(null_connectors_state(today))}
    /\ state = EmptyDict
    /\ args = ArgDefaults
    /\ pc = "idle"
    /\ exit_msg = ""
    /\ console = <<>>
    /\ saves = <<>>
    /\ disk0 = disk
    /\ prev = NoCommand
    /\ runs = MaxRuns - 1

InitRender == RenderMainInit /\ PlanIdle /\ RaceIdle /\ ViewIdle /\ StoreIdle

\* an invocation of main with the view it shows
SpecRender == InitRender /\ [][RenderNext]_vars

----------------------------------------------------------------------------
(* Properties of the rule matcher (checked under SpecPlan) *)

\* k occurs in s, stated position by position
Occurs(k, s) ==
    \E start \in 1..(Len(s) + 1) :
        \A j \in 1..Len(k) : start + j - 1 <= Len(s) /\ s[start + j - 1] = k[j]

\* a precedes b in code-point order, stated by the first position where they differ
LexBefore(a, b) ==
    \E i \in 1..(Len(b)) :
        /\ \A j \in 1..(i - 1) : j <= Len(a) /\ a[j] = b[j]
        /\ (Len(a) < i \/ Ord(a[i]) < Ord(b[i]))

\* the phrase the matcher scores: the lower-cased idea after normalization
ScoredPhrase == Lower(normalize_idea(creative_idea))

\* the number of keywords of each rule that occur in the phrase
RuleScores(phrase) ==
    [i \in 1..Len(rule_patterns) |->
        Cardinality({k \in 1..Len(rule_patterns[i].keywords) :
                        Occurs(rule_patterns[i].keywords[k], phrase)})]

\* the rules whose score is positive and the maximum
TopRules(score) ==
    {i \in DOMAIN score : score[i] > 0 /\ \A j \in DOMAIN score : score[j] <= score[i]}

\* the keyword mapping with its entries inserted in another order
Reordered(perm) == [i \in 1..Len(rule_patterns) |-> rule_patterns[perm[i]]]

\* C1: when some rule scores above 0, rule_matched is a rule of maximum score
\* (score = number of its keywords occurring in the lower-cased phrase), and
\* among the rules of maximum score it is the one with the lexicographically
\* smallest name; inserting the keyword mapping in any other order selects
\* the same rule.
C1_MaxScoreSmallestName ==
    plan_pc = "planned" =>
        LET phrase == ScoredPhrase
            top == TopRules(RuleScores(phrase))
        IN  top # {} =>
              /\ \E i \in top :
                    /\ auto_plan.rule_matched = rule_patterns[i].name
                    /\ \A j \in top \ {i} :
                          LexBefore(rule_patterns[i].name, rule_patterns[j].name)
              /\ \A perm \in Permutations(1..Len(rule_patterns)) :
                    match_rule(Reordered(perm), phrase) = auto_plan.rule_matched

\* C1 witness: a call returned for a phrase on which two rules tie at the
\* maximum score and the winner is not the first of them in dict order.
C1_Witness ==
    /\ plan_pc = "planned"
    /\ LET top == TopRules(RuleScores(ScoredPhrase)) IN
          \E i \in top, j \in top :
              i < j /\ auto_plan.rule_matched = rule_patterns[j].name

\* the idea is None, empty or made of whitespace only
IsBlank(idea) == idea.none \/ \A i \in 1..Len(idea.text) : idea.text[i] \in Whitespace

\* the fixed default plan, as the specification words it
FixedDefaultPlan ==
    [rule_matched |-> <<"D","e","f","a","u","l","t">>,
     segment |-> JStr("General Audience"),
     cadence |-> JStr("0-7"),
     channel |-> JStr("Email"),
     variants |-> JInt(1),
     auto_handled |-> <<"Segment selection", "Basic scheduling">>]

\* C2: whenever no rule has a positive score the call returns exactly the
\* fixed default plan, and every None, empty or whitespace-only idea gets
\* the fixed default plan, whatever rule table is passed.
C2_DefaultPlan ==
    plan_pc = "planned" =>
        LET top == TopRules(RuleScores(ScoredPhrase)) IN
        /\ (top = {} => auto_plan = FixedDefaultPlan)
        /\ (IsBlank(creative_idea) => auto_plan = FixedDefaultPlan)
        /\ (top # {} => auto_plan # FixedDefaultPlan)

\* C2 witness: a call returned the default plan for a whitespace-only idea
\* (not None, not empty) while a rule table was passed.
C2_Witness ==
    /\ plan_pc = "planned"
    /\ ~creative_idea.none
    /\ Len(creative_idea.text) >= 2
    /\ IsBlank(creative_idea)
    /\ ~automation_rules.none
    /\ auto_plan = FixedDefaultPlan

\* the fields of the descriptors, in the order the specification fixes
DescriptorOrder ==
    <<"segment", "cadence", "channel", "ab_tests", "variants", "length", "format">>

DescriptorLabel(key) ==
    CASE key = "segment" -> "Segment"
      [] key = "cadence" -> "Cadence"
      [] key = "channel" -> "Channel"
      [] key = "ab_tests" -> "A/B tests"
      [] key = "variants" -> "Creative variants"
      [] key = "length" -> "Video length"
      [] key = "format" -> "Format"

DescriptorUnit(key) ==
    IF key = "ab_tests" THEN " variants" ELSE IF key = "length" THEN "s" ELSE ""

\* a call returned a plan for a matched rule
RuleMatched == plan_pc = "planned" /\ auto_plan.rule_matched # FixedDefaultPlan.rule_matched

\* the configuration of the matched rule in the table the call used
MatchedConfig ==
    Get(IF automation_rules.none THEN sample_automation_rules ELSE automation_rules.table,
        auto_plan.rule_matched, EmptyDict)

\* the i-th smallest element of a set of positions
NthOf(S, i) == CHOOSE k \in S : Cardinality({j \in S : j < k}) = i - 1

\* the lines of the descriptors at the positions S, in descriptor order,
\* formatted from the values of the record
LinesOf(S, values) ==
    [i \in 1..Cardinality(S) |->
        LET key == DescriptorOrder[NthOf(S, i)] IN
        DescriptorLabel(key) \o ": " \o Format(values[key]) \o DescriptorUnit(key)]

\* C11 (as claimed): for a matched rule, auto_handled has one line for each
\* field that the rule's configuration provides with a truthy value, in
\* descriptor order, and no line for a field the configuration does not provide.
C11_LinesFromRuleConfig ==
    RuleMatched =>
        LET config == MatchedConfig IN
        auto_plan.auto_handled
            = LinesOf({k \in 1..Len(DescriptorOrder) :
                          /\ DescriptorOrder[k] \in DOMAIN config
                          /\ Truthy(config[DescriptorOrder[k]])}, config)

\* C11 (amended): for a matched rule, auto_handled has one line for each
\* field whose value on the plan is truthy, in descriptor order with the
\* unit suffixes; the plan takes each value from the rule's configuration
\* when the configuration has the key, otherwise "General Audience", "0-7",
\* "Email" and 1 for segment, cadence, channel and variants (which then get
\* a line) and None for ab_tests, length and format (which get no line).
C11_LinesFromPlan ==
    RuleMatched =>
        LET config == MatchedConfig IN
        /\ auto_plan.auto_handled
              = LinesOf({k \in 1..Len(DescriptorOrder) : Truthy(auto_plan[DescriptorOrder[k]])},
                        auto_plan)
        /\ \A k \in 1..Len(DescriptorOrder) :
              LET key == DescriptorOrder[k] IN
              IF key \in DOMAIN config THEN auto_plan[key] = config[key]
              ELSE auto_plan[key] = (CASE key = "segment" -> JStr("General Audience")
                                       [] key = "cadence" -> JStr("0-7")
                                       [] key = "channel" -> JStr("Email")
                                       [] key = "variants" -> JInt(1)
                                       [] OTHER -> JNone)

\* C11 witness: the enterprise rule of the sample table matched; its
\* configuration has ab_tests but no channel and no variants, and the plan
\* lists the default channel, the A/B tests and then the default variants.
C11_Witness ==
    /\ RuleMatched
    /\ "ab_tests" \in DOMAIN MatchedConfig
    /\ "variants" \notin DOMAIN MatchedConfig
    /\ auto_plan.auto_handled
          = <<"Segment: VP Sales", "Cadence: 0-5-14-30", "Channel: Email",
              "A/B tests: 3 variants", "Creative variants: 1">>

----------------------------------------------------------------------------
(* Properties of the commands (checked under Spec) *)

Campaigns(st) == Get(st, "campaigns", <<>>)
Videos(st) == Get(st, "videos", <<>>)

\* the last step called apply_strategy_to_segment
StrategyCalled == prev.cmd = "strategy" /\ prev.ran /\ Truthy(args.segment)

\* the last step called generate_marketing_video
VideoCalled == prev.cmd = "video" /\ prev.ran /\ Truthy(args.template) /\ Truthy(args.output)

\* save_state was called by the named function in this invocation
SavedBy(caller) == \E k \in 1..Len(saves) : saves[k] = caller

\* the strategies of the collection that the reference names, by short or full name
Names(strategies, ref) ==
    {i \in 1..Len(strategies) :
        \/ ("name" \in DOMAIN strategies[i] /\ strategies[i]["name"] = ref)
        \/ ("full_name" \in DOMAIN strategies[i] /\ strategies[i]["full_name"] = ref)}

\* the first of them in collection order (a set with at most one index)
FirstNamed(strategies, ref) ==
    {i \in Names(strategies, ref) : \A j \in 1..(i - 1) : j \notin Names(strategies, ref)}

\* the channel policy of the specification
PolicyChannel(channels) ==
    LET concrete == {i \in 1..Len(channels) : channels[i] # "All"} IN
    IF concrete # {} THEN channels[CHOOSE i \in concrete : \A j \in concrete : i <= j]
    ELSE IF channels # <<>> THEN "All"
    ELSE "Email"

\* C3: after apply_strategy_to_segment returned for a strategy with non-empty
\* steps, one campaign was appended and its channel is the first channel of
\* the strategy that is not "All", "All" when every channel is "All", and
\* "Email" when the channel list is empty.
C3_ChannelPolicy ==
    (StrategyCalled /\ prev.ok) =>
        LET strategies == Get(prev.state, "strategies", <<>>)
            old == Campaigns(prev.state)
            new == Campaigns(state)
        IN  \A i \in FirstNamed(strategies, args.select_strategy.s) :
                Get(strategies[i], "steps", <<>>) # <<>> =>
                    /\ Len(new) = Len(old) + 1
                    /\ new[Len(new)].channel
                         = PolicyChannel(Get(strategies[i], "channels", <<"Email">>))

\* C4: every apply_strategy_to_segment that found the strategy and the
\* segment appends exactly one campaign at the end, named
\* "{short name}: {steps[0]}", for the target segment, with status "ready"
\* and next_send tomorrow, keeps the campaigns that were there, and persists
\* the resulting state.
C4_AppendsOneCampaign ==
    (StrategyCalled /\ prev.ok) =>
        LET strategies == Get(prev.state, "strategies", <<>>)
            old == Campaigns(prev.state)
            new == Campaigns(state)
        IN  \A i \in FirstNamed(strategies, args.select_strategy.s) :
                /\ Len(new) = Len(old) + 1
                /\ SubSeq(new, 1, Len(old)) = old
                /\ new[Len(new)].name
                     = Get(strategies[i], "name", "Strategy") \o ": " \o strategies[i]["steps"][1]
                /\ new[Len(new)].segment = args.segment.s
                /\ new[Len(new)].status = "ready"
                /\ new[Len(new)].next_send = isoformat(NextDay(today))
                /\ disk = json_dump(state)

\* C5 (for an invocation that found a valid state file): when the
\* invocation ends with a validation failure, the state file is what it was
\* when the invocation started.
C5_NoPartialCommit ==
    (pc = "failed" /\ disk0.kind = "json") => disk = disk0

\* C6: apply_strategy_to_segment resolves the reference to the first strategy
\* in collection order whose short name or full name equals it, and the
\* segment by name; when the strategy or the segment is not found the
\* invocation ends with a message that lists the valid names, the state
\* record is untouched and the function has not called save_state.
C6_LookupFailure ==
    StrategyCalled =>
        LET ref == args.select_strategy.s
            seg == args.segment.s
            strategies == Get(prev.state, "strategies", <<>>)
            segments == Get(prev.state, "segments", <<>>)
            chosen == FirstNamed(strategies, ref)
            segFound == \E i \in 1..Len(segments) :
                            "name" \in DOMAIN segments[i] /\ segments[i]["name"] = seg
            untouched == /\ pc = "failed"
                         /\ ~prev.ok
                         /\ state = prev.state
                         /\ ~SavedBy("apply_strategy_to_segment")
        IN  /\ chosen = {} =>
                  /\ untouched
                  /\ exit_msg = "Strategy '" \o ref \o "' not found. Available: "
                                 \o Join(NamesOf(strategies))
            /\ (chosen # {} /\ ~segFound) =>
                  /\ untouched
                  /\ exit_msg = "Segment '" \o seg \o "' not found. Available: "
                                 \o Join(NamesOf(segments))
            /\ (chosen # {} /\ segFound) =>
                  /\ prev.ok
                  /\ \A i \in chosen :
                        console[Len(console) - 1]
                          = CheckMark \o " Applied strategy '" \o Get(strategies[i], "full_name", ref)
                            \o "' to segment '" \o seg \o "'"

\* C6 witness: the reference named a strategy by its full name, the segment
\* does not exist, and the invocation ended on the segment message.
C6_Witness ==
    /\ StrategyCalled
    /\ pc = "failed"
    /\ args.select_strategy = JStr("7Ps Marketing Mix")
    /\ args.segment = JStr("Ghost")
    /\ exit_msg = "Segment 'Ghost' not found. Available: New Leads, Active Customers, Dormant Accounts"

\* no two entries of the collection have the same output_path
DistinctPaths(videos) ==
    \A i \in 1..Len(videos), j \in 1..Len(videos) :
        (i # j /\ "output_path" \in DOMAIN videos[i] /\ "output_path" \in DOMAIN videos[j])
            => videos[i]["output_path"] # videos[j]["output_path"]

\* C8: the video collection never holds two entries with the same
\* output_path; a successful generate_marketing_video to a path that is
\* present rewrites that entry where it is and leaves the length and the
\* other entries alone, and to a new path appends exactly one entry.
C8_VideosKeyedByPath ==
    /\ DistinctPaths(Videos(state))
    /\ (VideoCalled /\ prev.ok) =>
          LET old == Videos(prev.state)
              new == Videos(state)
              path == args.output.s
              present == {i \in 1..Len(old) : old[i].output_path = path}
          IN  IF present # {} THEN
                  /\ Len(new) = Len(old)
                  /\ \A i \in 1..Len(old) :
                        IF i \in present
                        THEN /\ new[i].output_path = path
                             /\ new[i].template = args.template.s
                             /\ new[i].generated = isoformat(today)
                        ELSE new[i] = old[i]
              ELSE
                  /\ Len(new) = Len(old) + 1
                  /\ SubSeq(new, 1, Len(old)) = old
                  /\ new[Len(new)].output_path = path
                  /\ new[Len(new)].template = args.template.s

\* C8 witness: a video was generated to a path already present in a
\* collection of two, and the entry that was rewritten is not the last one.
C8_Witness ==
    /\ VideoCalled
    /\ prev.ok
    /\ Len(Videos(prev.state)) = 2
    /\ Len(Videos(state)) = 2
    /\ Videos(prev.state)[1].output_path = args.output.s
    /\ Videos(state)[1] # Videos(prev.state)[1]

\* C9: when generate_marketing_video fails (unknown template, multimedia
\* library not importable, or the encode raises) the invocation ends with a
\* message, the state record and its video collection are as before, and
\* the function has not called save_state; otherwise it returns.
C9_VideoFailure ==
    VideoCalled =>
        LET templates == Get(prev.state, "templates", <<>>)
            known == \E i \in 1..Len(templates) :
                        "name" \in DOMAIN templates[i] /\ templates[i]["name"] = args.template.s
            fails == ~known \/ ~prev.import_ok \/ ~prev.encode_ok
        IN  IF fails THEN
                /\ pc = "failed"
                /\ ~prev.ok
                /\ exit_msg # ""
                /\ state = prev.state
                /\ Videos(state) = Videos(prev.state)
                /\ ~SavedBy("generate_marketing_video")
            ELSE
                /\ prev.ok
                /\ SavedBy("generate_marketing_video")

\* C9 witness: the template exists and the library imports, but the encode
\* raises, after add-campaign had succeeded in the same invocation.
C9_Witness ==
    /\ VideoCalled
    /\ pc = "failed"
    /\ prev.import_ok
    /\ ~prev.encode_ok
    /\ args.template = JStr("Welcome Series")
    /\ exit_msg = "Failed to generate video: encoder error"
    /\ SavedBy("add_campaign")

\* C10: add-campaign, strategy-apply and video-generate remove nothing: every
\* campaign is still at its position with its content, every video is still
\* at its position under its output path (only the entry that was generated
\* again changes content), and every other collection is unchanged.
C10_NothingRemoved ==
    (prev.cmd \in {"add", "strategy", "video"}) =>
        LET oldC == Campaigns(prev.state)
            newC == Campaigns(state)
            oldV == Videos(prev.state)
            newV == Videos(state)
        IN  /\ Len(newC) >= Len(oldC)
            /\ SubSeq(newC, 1, Len(oldC)) = oldC
            /\ Len(newV) >= Len(oldV)
            /\ \A i \in 1..Len(oldV) :
                  /\ newV[i].output_path = oldV[i].output_path
                  /\ (newV[i] # oldV[i] =>
                        (prev.cmd = "video" /\ newV[i].output_path = args.output.s))
            /\ DOMAIN prev.state \subseteq DOMAIN state
            /\ DOMAIN state \subseteq DOMAIN prev.state \cup {"campaigns", "videos"}
            /\ \A k \in DOMAIN prev.state \ {"campaigns", "videos"} : state[k] = prev.state[k]

\* C10 witness: add-campaign, strategy-apply and video-generate all succeeded
\* in one invocation on a record that already held a campaign of the same
\* name and a video under the same path.
C10_Witness ==
    /\ pc = "generated"
    /\ prev.cmd = "video" /\ prev.ran /\ prev.ok
    /\ args.add_campaign
    /\ Truthy(args.select_strategy)
    /\ ~args.reset_sample
    /\ Len(Campaigns(state)) = 6
    /\ Campaigns(state)[4].name = "Promo"
    /\ Campaigns(state)[5].name = "Promo"
    /\ Len(Videos(state)) = 2

----------------------------------------------------------------------------
(* Properties of two racing invocations (checked under SpecRace) *)

\* position of an event in the order of file events, 0 if it has not happened
EventAt(p, ev) ==
    IF \E k \in 1..Len(rorder) : rorder[k] = Event(p, ev)
    THEN CHOOSE k \in 1..Len(rorder) : rorder[k] = Event(p, ev)
    ELSE 0

\* both invocations loaded the file before either began to save, and both finished
BothLoadedThenSaved ==
    /\ \A p \in Procs : rpc[p] = "done"
    /\ \A p \in Procs, q \in Procs :
          EventAt(p, "load") > 0 /\ EventAt(p, "load") < EventAt(q, "open")

\* the invocation whose write reached the file last
LastWriter == rorder[Len(rorder)].p

\* the campaign invocation p added is in the collection
HasCampaignOf(campaigns, p) ==
    \E i \in 1..Len(campaigns) : campaigns[i].name = RaceArgs(p).name.s

\* C7: when two invocations both load before either saves and each adds a
\* campaign, the file ends up holding exactly the in-memory state of the
\* invocation that wrote last, without the campaign of the other one.
C7_LaterWriterWins ==
    BothLoadedThenSaved =>
        /\ rfile = json_dump(rstate[LastWriter])
        /\ \A p \in Procs \ {LastWriter} : ~HasCampaignOf(Campaigns(rfile.data), p)

-----------------------------------------------------------------------------
(* Claims on the views (SpecView) *)

\* the view that was called last, on the record the behaviour started with
ViewIs(builder) == view.builder = builder

\* the stored action items of the record
StoredActions == Get(vstate0, "actions", <<>>)

\* C12 (as claimed): the brief lists at most 3 action items, and they are
\* the first items of the order the Actions panel gives (soonest due first,
\* missing and unparseable dues last), whatever the stored order is.
C12_BriefShowsSoonest ==
    (ViewIs("render_brief_mode") /\ StoredActions # <<>>) =>
        LET soonest == FirstThree(sorted_actions(StoredActions)) IN
        /\ Len(view.out.focus) <= 3
        /\ view.out.focus = [i \in 1..Len(soonest) |-> brief_action_line(soonest[i], today)]

\* a due text written as a strict YYYY-MM-DD date
StrictDue(item) ==
    LET due == Get(item, "due", <<>>) IN
    /\ due # PyNone
    /\ Len(due) = 10
    /\ strptime(due) # NoDate
    /\ isoformat(strptime(due)) = due

\* the order the claim describes: the items with a strict date ascending by
\* date, items of equal date in input order, then every other item in input
\* order
StrictDateOrder(actions) ==
    sorted_actions(SelectSeq(actions, StrictDue))
        \o SelectSeq(actions, LAMBDA item : ~StrictDue(item))

\* C13 (as claimed): the Actions panel lists the items ascending by due date,
\* stably, and every item whose due is missing, None or not a strict
\* YYYY-MM-DD text comes after all items with a date, in input order.
C13_StrictDatesFirst ==
    (ViewIs("build_actions_panel") /\ StoredActions # <<>>) =>
        LET claimed == StrictDateOrder(StoredActions) IN
        view.out.body = [i \in 1..Len(claimed) |-> action_line(claimed[i], today)]

\* the rows stored under a key of the record: none when the key is absent or null
RowsUnder(st, key) ==
    IF key \in DOMAIN st /\ st[key] # NullRows THEN st[key] ELSE <<>>

\* the rows of the Connectors table for a collection
ConnectorTableRows(connectors) ==
    [i \in 1..Len(connectors) |-> connector_row(connectors[i])]

\* C14 (as claimed): the Connectors table renders the rows of `connectors`
\* whenever that key is present, the rows of `integrations` only when
\* `connectors` is absent, and no rows when both are absent.
C14_ConnectorsWhenPresent ==
    ViewIs("build_integration_table") =>
        view.out.rows = ConnectorTableRows(
            IF "connectors" \in DOMAIN vstate0 THEN RowsUnder(vstate0, "connectors")
            ELSE RowsUnder(vstate0, "integrations"))

\* the record makes the builder read the legacy key: `connectors` is absent
\* or null
ReadsLegacyKey(st) == "connectors" \notin DOMAIN st \/ st["connectors"] = NullRows

\* the legacy key is read and holds null
LegacyKeyIsNull(st) ==
    ReadsLegacyKey(st) /\ "integrations" \in DOMAIN st /\ st["integrations"] = NullRows

\* C14 (amended): the Connectors table renders the rows of `connectors`
\* whenever that key is present with a value other than null (an empty list
\* included, and whether or not `integrations` is present), the rows of
\* `integrations` only when `connectors` is absent or null, and no rows when
\* `integrations` is then absent as well.  If `integrations` is then null,
\* the builder raises TypeError and renders no table; it raises in no
\* other case.
C14_ConnectorsUnlessNull ==
    /\ ViewIs("build_integration_table") =>
          /\ ~LegacyKeyIsNull(vstate0)
          /\ view.out.rows = ConnectorTableRows(
                  IF ~ReadsLegacyKey(vstate0) THEN vstate0["connectors"]
                  ELSE IF "integrations" \in DOMAIN vstate0 THEN vstate0["integrations"]
                  ELSE <<>>)
    /\ (view.builder = "raised" /\ view.out.call = "build_integration_table") =>
          /\ LegacyKeyIsNull(vstate0)
          /\ view.out.exception = "TypeError"

\* C14 witness: the table was built from a record whose connectors list is
\* empty while integrations has rows, and it has no rows.
C14_Witness ==
    /\ ViewIs("build_integration_table")
    /\ "connectors" \in DOMAIN vstate0 /\ vstate0["connectors"] = <<>>
    /\ "integrations" \in DOMAIN vstate0 /\ Len(vstate0["integrations"]) = 2
    /\ view.out.rows = <<>>

-----------------------------------------------------------------------------
(* Claims on loading (Spec) *)

-----------------------------------------------------------------------------
(* Claims on repeated calls of generate_auto_plan (SpecCalls) *)

\* the rule of the video keywords
DemoVideoRule == <<"D", "e", "m", "o", "_", "v", "i", "d", "e", "o">>

\* calls on the same phrase returned equal plans, on whatever date they were
\* made and whatever the callers did to the plans of earlier calls, and the
\* fixture phrase got the video rule every time
EqualPlans ==
    /\ \A i, j \in 1..Len(plan_calls) :
          plan_calls[i].idea = plan_calls[j].idea => plan_calls[i].plan = plan_calls[j].plan
    /\ \A i \in 1..Len(plan_calls) :
          plan_calls[i].idea = Idea(FixturePhrase) =>
              plan_calls[i].plan.rule_matched = DemoVideoRule

\* a step is a call of generate_auto_plan
IsCallStep == Len(plan_calls') = Len(plan_calls) + 1

\* the call returned a dict that nobody held before, and left the dicts of
\* earlier calls as their callers have them
ReturnsNewObject ==
    /\ Len(plan_objects') = Len(plan_objects) + 1
    /\ plan_calls'[Len(plan_calls')].object = Len(plan_objects')
    /\ SubSeq(plan_objects', 1, Len(plan_objects)) = plan_objects

\* C16: generate_auto_plan is a pure function with no hidden state.
\* Whatever phrases are called in whatever order, two calls on the same
\* phrase return equal plans, also when the date has changed between them
\* (without a table the function builds sample_state(), which reads the
\* clock) and when a caller has changed the plan an earlier call gave it;
\* the fixture phrase "Let's build a demo video for the CTO" gets the video
\* rule on every call; every call returns a dict of its own and changes
\* neither the rule table nor the state file nor the plans callers hold.
C16_PureFunction ==
    /\ []EqualPlans
    /\ [][automation_rules' = automation_rules /\ disk' = disk]_vars
    /\ [][IsCallStep => ReturnsNewObject]_vars

\* C16 witness: without a rule table, the fixture phrase was called, then
\* another phrase that matches another rule, then the fixture phrase again
\* on the next day and after the caller of the first call had changed its
\* plan; the third call returned the plan the first call returned.
C16_Witness ==
    /\ Len(plan_calls) = 3
    /\ plan_calls[1].idea = Idea(FixturePhrase)
    /\ plan_calls[3].idea = Idea(FixturePhrase)
    /\ plan_calls[2].idea # Idea(FixturePhrase)
    /\ plan_calls[2].plan.rule_matched \notin {DemoVideoRule, NoRule}
    /\ plan_calls[3].plan.rule_matched = DemoVideoRule
    /\ automation_rules = NoTable
    /\ plan_calls[1].now = CallsFirstDay
    /\ plan_calls[3].now = NextDay(CallsFirstDay)
    /\ plan_objects[1] = caller_edit(plan_calls[1].plan)
    /\ plan_objects[3] = plan_calls[3].plan
    /\ plan_calls[3].plan = plan_calls[1].plan

-----------------------------------------------------------------------------
(* More claims on the views (SpecView) *)

\* the distance between two integers
Distance(a, b) == IF a < b THEN b - a ELSE a - b

\* text is nurtured/size*100 with zero decimals, followed by "% nurtured"
IsNurturedPercent(text, size, nurtured) ==
    \E percent \in 0..(100 * nurtured) :
        /\ text = NatToStr(percent) \o "% nurtured"
        /\ 2 * Distance(percent * size, 100 * nurtured) <= size

\* C17: in the Segments table the Progress cell of a segment with size > 0
\* is nurtured/size*100 with zero decimals and the suffix "% nurtured", and
\* the cell of a segment whose size is 0 or missing is the placeholder (no
\* division takes place).
C17_ProgressOrPlaceholder ==
    ViewIs("build_segment_table") =>
        LET segments == Get(vstate0, "segments", <<>>) IN
        /\ Len(view.out.rows) = Len(segments)
        /\ \A i \in 1..Len(segments) :
              LET segment == segments[i]
                  cell == view.out.rows[i][4]
              IN  IF "size" \in DOMAIN segment /\ segment["size"] > 0
                  THEN IsNurturedPercent(cell, segment["size"], Get(segment, "nurtured", 0))
                  ELSE cell = EmDash

\* C17 witness: the table was built for a segment of 34 with 23 nurtured and
\* a segment of size 0 that has 5 nurtured; the cells are "68% nurtured" and
\* the placeholder.
C17_Witness ==
    /\ ViewIs("build_segment_table")
    /\ Len(Get(vstate0, "segments", <<>>)) = 2
    /\ vstate0["segments"][2] = SegmentItem(0, 5)
    /\ view.out.rows[1][4] = "68% nurtured"
    /\ view.out.rows[2][4] = EmDash

\* the tables with a status column: the collection they list and the column
StatusTables ==
    { [builder |-> "build_campaign_table", key |-> "campaigns", column |-> 7],
      [builder |-> "build_videos_table", key |-> "videos", column |-> 3],
      [builder |-> "build_integration_table", key |-> "connectors", column |-> 2],
      [builder |-> "build_backend_table", key |-> "backend", column |-> 2],
      [builder |-> "build_database_table", key |-> "databases", column |-> 3] }

\* the color the fixed table gives a lower-cased status, or the neutral one
TableColor(lowered) ==
    IF lowered \in DOMAIN status_mapping THEN status_mapping[lowered] ELSE "white"

\* C18: _status_color is total and case-insensitive.  Every status cell of a
\* table has the color the fixed table gives the lower-cased status, and
\* white when the lower-cased status is not in the table; a record without
\* a status is shown as "unknown" in white.
C18_StatusColor ==
    \A t \in StatusTables :
        ViewIs(t.builder) =>
            LET items == IF t.key = "connectors" THEN active_connectors(vstate0)
                         ELSE Get(vstate0, t.key, <<>>)
            IN
            /\ Len(view.out.rows) = Len(items)
            /\ \A i \in 1..Len(items) :
                  LET cell == view.out.rows[i][t.column] IN
                  /\ cell.style = TableColor(Lower(Get(items[i], "status", Unknown)))
                  /\ "status" \notin DOMAIN items[i] =>
                        cell = [text |-> title(Unknown), style |-> "white"]

\* C18 witness: the Campaigns table was built for a campaign whose status is
\* written "RUNNING", and the cell is green.
C18_Witness ==
    /\ ViewIs("build_campaign_table")
    /\ Len(Get(vstate0, "campaigns", <<>>)) = 1
    /\ Get(vstate0["campaigns"][1], "status", Unknown) = <<"R", "U", "N", "N", "I", "N", "G">>
    /\ view.out.rows[1][7].style = "green"
    /\ view.out.rows[1][7].style = TableColor(<<"r", "u", "n", "n", "i", "n", "g">>)

\* the three rates of the analytics panel: line of the body, key and label
PanelRates ==
    { [line |-> 1, key |-> "open_rate", label |-> "Open rate"],
      [line |-> 2, key |-> "click_rate", label |-> "Click rate"],
      [line |-> 3, key |-> "reply_rate", label |-> "Reply rate"] }

\* text is raw followed by the signed delta (rate - benchmark) / benchmark * 100
\* with zero decimals, for benchmark > 0 and rate # benchmark
IsRateWithDelta(text, raw, rate, benchmark) ==
    LET sign == IF rate > benchmark THEN "+" ELSE "-"
        gap == Distance(rate, benchmark)
    IN  \E percent \in 0..((100 * gap) \div benchmark + 1) :
            /\ text = raw \o " (" \o sign \o NatToStr(percent) \o "% vs avg)"
            /\ 2 * Distance(percent * benchmark, 100 * gap) <= benchmark

\* C19: in the analytics panel each of the open, click and reply rates is
\* shown raw; a signed delta against the benchmark follows exactly when the
\* benchmark is > 0 and the rate differs from it.  With a delta of zero, or
\* a benchmark that is <= 0 or absent, the line is the raw rate alone.
C19_DeltaIndicator ==
    ViewIs("build_analytics_panel") =>
        LET analytics == Get(vstate0, "analytics", EmptyDict)
            benchmarks == Get(vstate0, "benchmarks", EmptyDict)
        IN  \A r \in PanelRates :
                LET rate == Get(analytics, r.key, 0)
                    raw == r.label \o ": " \o format_pct(rate)
                    text == view.out.body[r.line]
                IN  IF r.key \in DOMAIN benchmarks /\ benchmarks[r.key] > 0
                       /\ rate # benchmarks[r.key]
                    THEN IsRateWithDelta(text, raw, rate, benchmarks[r.key])
                    ELSE text = raw

\* C19 witness: the panel was built with an open rate equal to its
\* benchmark, a click rate above its benchmark and a reply rate whose
\* benchmark is negative.
C19_Witness ==
    /\ ViewIs("build_analytics_panel")
    /\ "benchmarks" \in DOMAIN vstate0
    /\ vstate0["benchmarks"] = [open_rate |-> 250, click_rate |-> 250, reply_rate |-> -250]
    /\ vstate0["analytics"] = RateRecord(<<250, 460, 230>>)
    /\ view.out.body[1] = "Open rate: 25.0%"
    /\ view.out.body[2] = "Click rate: 46.0% (+84% vs avg)"
    /\ view.out.body[3] = "Reply rate: 23.0%"

\* the builders and render_dashboard
Builders ==
    { "build_campaign_table", "build_segment_table", "build_template_table",
      "build_strategies_table", "build_videos_table", "build_integration_table",
      "build_backend_table", "build_database_table", "build_feedback_table",
      "build_analytics_panel", "build_actions_panel", "render_dashboard" }

\* C20: the builders and render_dashboard leave the state record unchanged.
\* After any sequence of calls the record equals the record before the
\* first call, the order of the stored actions included, and no call
\* changes it.
C20_BuildersLeaveState ==
    /\ [](vstate = vstate0)
    /\ [][view'.builder \in Builders => vstate' = vstate]_vars

\* C20 witness: the Actions panel was built from actions stored tomorrow
\* first, then today; the panel lists today's item first and the record
\* still has them as stored.
C20_Witness ==
    /\ ViewIs("build_actions_panel")
    /\ Len(StoredActions) = 2
    /\ due_key(StoredActions[1]) = NextDay(today)
    /\ due_key(StoredActions[2]) = today
    /\ view.out.body[1] = action_line(StoredActions[2], today)
    /\ vstate["actions"] = StoredActions


----------------------------------------------------------------------------
(* C21: save_state then load_state gives back the record *)

\* the record that was saved is a state record of the data model with an
\* empty collection (segments), a missing one (connectors) and a name whose
\* characters json.dump escapes
EscapedName == <<"\t", CharOf(8212), "\n", CharOf(233), CharOf(128640), CharOf(127)>>

\* C21: whenever a state record has been persisted with save_state and then
\* reloaded with load_state, load_state returns (without resetting and
\* without failing) a record identical to the one that was persisted.
C21_SaveLoadRoundTrip ==
    spc = "reloaded" => sloaded = [outcome |-> "loaded", value |-> srecord]

C21_Witness ==
    /\ spc = "reloaded"
    /\ sloaded.outcome = "loaded"
    /\ srecord = StoreRecord({K_profile, K_segments}, 0, EscapedName)
    /\ sloaded.value = srecord
    /\ sfile.kind = "text"
    /\ IsSubstring(<<"\\", "u", "2", "0", "1", "4">>, sfile.data)
    /\ IsSubstring(<<"\"", "s", "e", "g", "m", "e", "n", "t", "s", "\"", ":", " ", "[", "]">>,
                   sfile.data)


----------------------------------------------------------------------------
(* C22: the region tree of the dashboard *)

\* the names of regions, in order
RegionNames(regions) == [i \in 1..Len(regions) |-> regions[i].name]

\* the part of a region with the given name
Part(region, name) ==
    region.children[CHOOSE i \in 1..Len(region.children) : region.children[i].name = name]

\* the stored collections of the record are all empty or missing
NoRows(st) ==
    \A key \in {"campaigns", "segments", "templates", "videos", "strategies", "connectors",
                "integrations", "backend", "databases", "feedback", "actions"} :
        key \in DOMAIN st => st[key] = <<>>

\* C22: for every state record, with empty collections or with rows,
\* render_dashboard builds the same region tree: the root is header,
\* quick_actions, body, footer from top to bottom; body is left (campaigns,
\* segments) beside right (templates, videos, strategies beside analytics);
\* footer is a top row (connectors, backend, database) above a bottom row
\* (feedback, actions); header, quick_actions and footer have a declared
\* size and body is the only region of the root without one.  Every leaf
\* holds what its builder gives for the record.
C22_SameRegionTree ==
    ViewIs("render_dashboard") =>
        LET root == view.out.layout
            body == Part(root, "body")
            right == Part(body, "right")
            footer == Part(root, "footer").children[1]
        IN  /\ root.splitter = "column"
            /\ RegionNames(root.children) = <<"header", "quick_actions", "body", "footer">>
            /\ {root.children[i].name : i \in {k \in 1..Len(root.children) : root.children[k].fixed}}
                   = {"header", "quick_actions", "footer"}
            /\ \A i \in 1..Len(root.children) : root.children[i].fixed => root.children[i].size > 0
            /\ ~body.fixed
            /\ body.splitter = "row"
            /\ RegionNames(body.children) = <<"left", "right">>
            /\ Part(body, "left").splitter = "column"
            /\ RegionNames(Part(body, "left").children) = <<"campaigns", "segments">>
            /\ right.splitter = "column"
            /\ RegionNames(right.children) = <<"templates", "videos", "strategies_analytics">>
            /\ Part(right, "strategies_analytics").splitter = "row"
            /\ RegionNames(Part(right, "strategies_analytics").children)
                   = <<"strategies", "analytics">>
            /\ Len(Part(root, "footer").children) = 1
            /\ footer.splitter = "column"
            /\ RegionNames(footer.children) = <<"footer_top", "footer_bottom">>
            /\ Part(footer, "footer_top").splitter = "row"
            /\ RegionNames(Part(footer, "footer_top").children)
                   = <<"connectors", "backend", "database">>
            /\ Part(footer, "footer_bottom").splitter = "row"
            /\ RegionNames(Part(footer, "footer_bottom").children) = <<"feedback", "actions">>
            /\ view.out.body.left.campaigns = build_campaign_table(vstate0).out
            /\ view.out.body.left.segments = build_segment_table(vstate0).out
            /\ view.out.body.right.templates = build_template_table(vstate0).out
            /\ view.out.body.right.videos = build_videos_table(vstate0).out
            /\ view.out.body.right.strategies_analytics.strategies
                   = build_strategies_table(vstate0).out
            /\ view.out.body.right.strategies_analytics.analytics
                   = build_analytics_panel(vstate0).out
            /\ view.out.footer.footer_top.connectors = build_integration_table(vstate0).out
            /\ view.out.footer.footer_top.backend = build_backend_table(vstate0).out
            /\ view.out.footer.footer_top.database = build_database_table(vstate0).out
            /\ view.out.footer.footer_bottom.feedback = build_feedback_table(vstate0).out
            /\ view.out.footer.footer_bottom.actions = build_actions_panel(vstate0, today).out

\* C22 witness: the dashboard was rendered for a record without any row, and
\* the footer region is there with its declared size.
C22_Witness ==
    /\ ViewIs("render_dashboard")
    /\ NoRows(vstate0)
    /\ "analytics" \notin DOMAIN vstate0
    /\ Part(view.out.layout, "footer").fixed
    /\ Part(view.out.layout, "footer").size = 6
    /\ view.out.footer.footer_top.connectors.rows = <<>>


----------------------------------------------------------------------------
(* C23: a strategy without steps *)

\* the call was given a strategy that exists, found by its short or full
\* name, whose steps list is empty, and a segment that exists
EmptyStepsCall ==
    /\ StrategyCalled
    /\ segment_exists(Get(prev.state, "segments", <<>>), args.segment.s)
    /\ \E i \in FirstNamed(Get(prev.state, "strategies", <<>>), args.select_strategy.s) :
           Get(Get(prev.state, "strategies", <<>>)[i], "steps", <<>>) = <<>>

\* C23: when apply_strategy_to_segment is given an existing strategy whose
\* steps list is empty and an existing segment, it returns without failure,
\* leaves the campaign collection as it was, still persists the state and
\* still prints "Generated 1 campaign(s)", although it added none.
C23_EmptyStepsReportsOne ==
    EmptyStepsCall =>
        /\ prev.ok
        /\ pc = "applied"
        /\ exit_msg = ""
        /\ Campaigns(state) = Campaigns(prev.state)
        /\ saves # <<>>
        /\ saves[Len(saves)] = "apply_strategy_to_segment"
        /\ disk = json_dump(state)
        /\ console # <<>>
        /\ console[Len(console)] = "  Generated 1 campaign(s)"

\* C23 witness: --select-strategy NoSteps --segment "New Leads" on the
\* edited state file: the record has no campaign before and after, the file
\* was written and the line was printed.
C23_Witness ==
    /\ EmptyStepsCall
    /\ args.select_strategy = JStr("NoSteps")
    /\ args.segment = JStr("New Leads")
    /\ Campaigns(prev.state) = <<>>
    /\ Campaigns(state) = <<>>
    /\ disk = json_dump(state)
    /\ console[Len(console)] = "  Generated 1 campaign(s)"


----------------------------------------------------------------------------
(* C24: the file and the record in memory at the end of an invocation *)

\* the invocation of main has ended: it returned, or a SystemExit of a
\* validation or of a missing dependency ended it
Terminated == pc \in {"done", "failed"}

\* the options of the invocation ask for a command that changes the state
MutatingRequested ==
    \/ args.reset_sample
    \/ args.add_campaign
    \/ Truthy(args.select_strategy)
    \/ args.generate_video

\* the functions that call save_state, in the order main reaches them
SaveOrder ==
    << "load_state", "reset_state", "add_campaign", "apply_strategy_to_segment",
       "generate_marketing_video" >>

SavePlace(caller) == CHOOSE k \in 1..Len(SaveOrder) : SaveOrder[k] = caller

\* the function that saves for a command of main
SaverOf(cmd) ==
    IF cmd = "reset" THEN "reset_state"
    ELSE IF cmd = "add" THEN "add_campaign"
    ELSE IF cmd = "strategy" THEN "apply_strategy_to_segment"
    ELSE "generate_marketing_video"

\* C24: whenever an invocation of main has ended, normally or by a
\* validation or dependency failure, the state file holds the record the
\* invocation has in memory; every mutating command that ran and returned
\* (reset, add-campaign, strategy-apply, video-generate) has written the
\* whole record to the file before the next step; the writes of one
\* invocation come in the order reset, add-campaign, strategy-apply,
\* video-generate; and an invocation that asks for no mutating command and
\* found a state file holding JSON writes nothing.
C24_PersistedEqualsMemory ==
    /\ Terminated => disk = json_dump(state)
    /\ (prev.cmd \in {"reset", "add", "strategy", "video"} /\ prev.ran /\ prev.ok) =>
           /\ disk = json_dump(state)
           /\ saves # <<>>
           /\ saves[Len(saves)] = SaverOf(prev.cmd)
    /\ \A i, j \in 1..Len(saves) : i < j => SavePlace(saves[i]) < SavePlace(saves[j])
    /\ (Terminated /\ ~MutatingRequested /\ disk0.kind = "json") =>
           /\ saves = <<>>
           /\ disk = disk0

\* C24 witness: an invocation added a campaign and was then ended by the
\* unknown strategy; the file holds the record with the added campaign, which
\* is the record in memory and not what the file held at the start.
C24_Witness ==
    /\ pc = "failed"
    /\ StrategyCalled
    /\ ~prev.ok
    /\ saves = <<"add_campaign">>
    /\ disk = json_dump(state)
    /\ disk # disk0
    /\ Len(Campaigns(state)) = Len(Campaigns(disk0.data)) + 1


----------------------------------------------------------------------------
(* C25: add_campaign *)

\* the last step was main's --add-campaign branch (lines 1338-1340)
AddCalled == prev.cmd = "add" /\ prev.ran

RequiredFields == {"name", "segment", "trigger", "channel", "template"}

\* the campaign --add-campaign describes: the five fields as given, the
\* status (scheduled unless --status gave another) and the next send date
\* (today unless --next-send gave one)
DescribedCampaign ==
    [name |-> args.name.s,
     segment |-> args.segment.s,
     trigger |-> args.trigger.s,
     channel |-> args.channel.s,
     template |-> args.template.s,
     status |-> args.status,
     next_send |-> IF args.next_send.none THEN isoformat(today) ELSE args.next_send.text]

\* C25: when --add-campaign comes with its five required fields non-empty,
\* add_campaign appends exactly one campaign with those values at the end of
\* the campaign collection, status "scheduled" by default and next_send
\* today when not given, keeps the other campaigns and every other
\* collection, whether or not the segment and the template exist, and
\* persists the state; when a required field is missing or empty the
\* invocation fails and the record and the file are as they were before.
C25_AddCampaign ==
    /\ ArgDefaults.status = "scheduled"
    /\ AddCalled =>
           IF \A f \in RequiredFields : Truthy(args[f])
           THEN /\ prev.ok
                /\ pc = "added"
                /\ Len(Campaigns(state)) = Len(Campaigns(prev.state)) + 1
                /\ SubSeq(Campaigns(state), 1, Len(Campaigns(prev.state))) = Campaigns(prev.state)
                /\ Campaigns(state)[Len(Campaigns(state))] = DescribedCampaign
                /\ DOMAIN state = DOMAIN prev.state \cup {"campaigns"}
                /\ \A key \in DOMAIN prev.state \ {"campaigns"} : state[key] = prev.state[key]
                /\ disk = json_dump(state)
                /\ saves[Len(saves)] = "add_campaign"
           ELSE /\ ~prev.ok
                /\ pc = "failed"
                /\ state = prev.state
                /\ disk = json_dump(prev.state)
                /\ \A k \in 1..Len(saves) : saves[k] # "add_campaign"

\* C25 witness: --add-campaign --name Promo --segment Ghost --trigger Manual
\* --channel SMS --template Nope, with no --status and no --next-send, on a
\* record that has neither the segment nor the template: the campaign is the
\* last of the collection, scheduled for today.
C25_Witness ==
    /\ AddCalled
    /\ prev.ok
    /\ args.segment = JStr("Ghost")
    /\ args.template = JStr("Nope")
    /\ args.next_send.none
    /\ args.status = "scheduled"
    /\ ~segment_exists(Get(state, "segments", <<>>), "Ghost")
    /\ find_by(Get(state, "templates", <<>>), "name", "Nope") = 0
    /\ Len(Campaigns(prev.state)) > 0
    /\ Campaigns(state)[Len(Campaigns(state))].segment = "Ghost"
    /\ Campaigns(state)[Len(Campaigns(state))].next_send = isoformat(today)
    /\ disk = json_dump(state)


----------------------------------------------------------------------------
(* C26: the view of an invocation *)

\* a view that returns before main reaches the dashboard
ShortCircuited == args.brief \/ args.export_cards \/ args.creative_mode

\* the commands the options ask for, by the function that saves for each
RequestedSavers ==
    {SaverOf(cmd) : cmd \in {c \in {"reset", "add", "strategy", "video"} :
        \/ c = "reset" /\ args.reset_sample
        \/ c = "add" /\ args.add_campaign
        \/ c = "strategy" /\ Truthy(args.select_strategy)
        \/ c = "video" /\ args.generate_video}}

\* the record a view was given, for the views that take the state
GivenRecord ==
    IF ViewIs("export_status_cards") THEN view.out.call.state ELSE view.out.state

\* render_dashboard was called and raised
DashboardRaised == view.builder = "raised" /\ view.out.call = "render_dashboard"

\* main has reached its view: the view returned, or it raised and ended main
ViewReached == pc = "rendered" \/ (pc = "crashed" /\ view.builder = "raised")

\* the invocation has reached its view: which one the options select, what
\* the commands have done by then, and how the view ended
ViewOfInvocation ==
    /\ (ViewIs("render_dashboard") \/ DashboardRaised) <=>
           /\ ~ShortCircuited
           /\ args.summary \/ args.snapshot \/ ~MutatingRequested
    /\ DashboardRaised <=>
           /\ ~ShortCircuited
           /\ args.summary \/ args.snapshot \/ ~MutatingRequested
           /\ LegacyKeyIsNull(state)
    /\ view.builder = "raised" =>
           /\ DashboardRaised
           /\ view.out.exception = "TypeError"
           /\ pc = "crashed"
           /\ exit_msg = "TypeError"
           /\ \A k \in 1..Len(console) :
                  console[k] # "Saved snapshot to " \o PathStr(args.snapshot_path)
    /\ args.brief => ViewIs("render_brief_mode")
    /\ (~args.brief /\ args.export_cards) => ViewIs("export_status_cards")
    /\ (~args.brief /\ ~args.export_cards /\ args.creative_mode) => ViewIs("creative_mode")
    /\ ~ViewIs("none") =>
           /\ \A saver \in RequestedSavers : \E k \in 1..Len(saves) : saves[k] = saver
           /\ disk = json_dump(state)
           /\ (~ViewIs("creative_mode") /\ view.builder # "raised") => GivenRecord = state
           /\ args.add_campaign =>
                  \E i \in 1..Len(Campaigns(state)) : Campaigns(state)[i] = DescribedCampaign
           /\ (args.reset_sample /\ ~args.add_campaign /\ ~Truthy(args.select_strategy)
                    /\ ~args.generate_video) => state = sample_state(today)

====
